---- MODULE Spec2Model ----
(***************************************************************************)
(* Model of the faster-whisper transcription worker                        *)
(* (src/faster-whisper/src): the per-file driver process_one_file, the SSE *)
(* session _transcribe_sse_and_merge with its segment merger, the          *)
(* checkpoint store and atomic_write_json.                                 *)
(*                                                                         *)
(* Times are integers counted in ticks, TicksPerMs ticks to a millisecond, *)
(* so that two timestamps can differ below the millisecond that seg_key    *)
(* rounds to.  A JSON document is a record that holds the keys it has.     *)
(***************************************************************************)
EXTENDS Integers, Sequences, FiniteSets, TLC

VARIABLES
    \* ---- the file system
    src,                \* name of the source file: "input", "processed", "failed"
    sig,                \* get_file_signature(input_path) of the source file
    disk,               \* the document at the checkpoint path (NoFile, Corrupt or a record)
    outputs,            \* the two output files: None or [transcript, segments]
    chunk,              \* a resume chunk exists in temp_dir
    clean,              \* the silence-removed copy exists in temp_dir
    \* ---- the worker process
    stop,               \* WhisperWorker.stop_event
    pc,                 \* position inside main / process_one_file
    attempt,            \* process_one_file local
    last_end_sec,       \* process_one_file local
    segments_map,       \* process_one_file local: insertion-ordered dict
    audio_duration,     \* process_one_file local
    use_path,           \* process_one_file local: "input" or "clean"
    tmp_path,           \* process_one_file local: None or "chunk"
    resume_offset_sec,  \* process_one_file local
    drop_ends_leq_sec,  \* process_one_file local
    latest_text,        \* process_one_file local: "Unset" until a session returned
    sess_text,          \* _transcribe_sse_and_merge local latest_text
    last_checkpoint_write, \* _transcribe_sse_and_merge local: 0 = never written
    n_events,           \* events the current session has received
    \* ---- configuration and history
    rename_failed,      \* Config.rename_failed
    resume_enabled,     \* Config.resume_enabled
    restarts,           \* how often the process was started again
    attempts_before,    \* history: attempts on disk before the current attempt began
    last_op,            \* history: how the last call of process_one_file ended
    \* ---- atomic_write_json taken apart (SpecWrite)
    w_pc,               \* position inside atomic_write_json
    w_path,             \* its argument path
    w_data,             \* its argument data
    w_old,              \* history: what was at path when the call began
    w_fs,               \* the directory: file name -> content, or NoFile
    \* ---- one session fed two orders of the same events (SpecMerge)
    m_pc,               \* "run" while the two sessions are fed
    m_left_a, m_left_b, \* the events either session has still to receive
    m_map_a, m_map_b,   \* the segment map of either session
    m_offset, m_drop,   \* resume_offset_sec and drop_ends_leq_sec of both
    \* ---- a one-shot run against a cut and resumed run (SpecResume)
    r_pc,               \* "one": the one-shot run, "first": the run cut after
                        \* s_k, "chunk": the resumed session, "done"
    r_run,              \* the segments s_1..s_n of the one-shot run
    r_k,                \* the cut
    r_todo,             \* the segments the running session has still to receive
    r_one, r_res,       \* the segment map of the one-shot and of the resumed run
    r_dup,              \* the server transcribes again what the cut goes through
    \* ---- the directory scan and the renames of main's loop (SpecScan)
    s_pc,               \* "scan": before list_candidate_files, "files": in the for loop
    s_dir,              \* input_dir: the entries [name, kind] it holds
    s_scan,             \* what list_candidate_files returned last
    s_todo,             \* the files of s_scan the for loop has still to process
    s_renamed,          \* history: the names rename_processed and rename_failed gave
    s_out,              \* output_dir: the files [path, by] save_outputs wrote, by which input
    \* ---- the backoff sleep after a failed attempt (SpecBackoff)
    b_pc,               \* position between worker.py 526 and the next 381
    b_attempt,          \* process_one_file local attempt
    b_now,              \* time.time(), in seconds since the failure was persisted
    b_end_wait,         \* process_one_file local end_wait
    b_stop,             \* WhisperWorker.stop_event
    b_started_at,       \* process_one_file local started_at of the next attempt
    \* ---- iter_sse_data reading a stream of lines (SpecSse)
    e_pc,               \* "read" inside the for loop, "done" after the generator ended
    e_in,               \* the lines the response delivered
    e_rest,             \* the lines the for loop has still to read
    e_data_lines,       \* iter_sse_data local data_lines
    e_out,              \* the payloads yielded so far
    \* ---- soft_delete on a directory (SpecDelete)
    d_pc,               \* "run" while files are created and soft-deleted
    d_fs,               \* the directory: the files [name, data] it holds
    d_now,              \* datetime.now(), in whole seconds
    d_created,          \* how many files were created
    d_last,             \* history: the last call of soft_delete
    \* ---- the transcript of a finished session (SpecTranscript)
    t_pc,               \* "built" after worker.py 452-467
    t_map,              \* process_one_file local segments_map
    t_latest,           \* process_one_file local latest_text
    t_out,              \* process_one_file locals seg_list and transcript
    \* ---- the periodic snapshots of one session against the clock (SpecSnapshot)
    p_pc,               \* "events" inside the ingestion loop
    p_now,              \* time.time(), in seconds
    p_last_write,       \* _transcribe_sse_and_merge local last_checkpoint_write
    p_map,              \* the segment map
    p_left,             \* the events still to come
    p_text,             \* _transcribe_sse_and_merge local latest_text
    p_disk,             \* the document at the checkpoint path
    p_snaps,            \* history: the snapshots written, [at, map, text]
    p_in,               \* history: the payloads of the whole stream
    \* ---- cleanup_orphan_checkpoints over a checkpoint directory (SpecOrphan)
    o_pc,               \* "start" before the glob, "loop" inside the for loop, "done"
    o_dir,              \* checkpoint_dir: file name -> content, or NoFile
    o_files,            \* the input files that exist
    o_todo,             \* the paths the glob has still to yield
    o_now,              \* datetime.now(), in seconds
    o_removed,          \* cleanup_orphan_checkpoints local removed
    o_before,           \* history: checkpoint_dir when the call began
    \* ---- the progress reporter thread beside its session (SpecProgress)
    g_pc,               \* the session: "body", "join" inside t.join, "returned", "raised"
    g_how,              \* how the body is left: "returned" or "raised"
    g_thread,           \* the thread: "test" at the while, "sleep", "log", "dead"
    g_now,              \* time.time(), in seconds
    g_wake,             \* when the thread's time.sleep ends
    g_deadline,         \* when t.join(timeout=1) gives up
    g_progress_stop,    \* the progress_stop event
    g_stop,             \* WhisperWorker.stop_event
    g_late              \* history: progress lines logged after the session was left

drv_vars == <<src, sig, disk, outputs, chunk, clean, stop, pc, attempt, last_end_sec,
              segments_map, audio_duration, use_path, tmp_path, resume_offset_sec,
              drop_ends_leq_sec, latest_text, sess_text, last_checkpoint_write,
              n_events, rename_failed, resume_enabled, restarts,
              attempts_before, last_op>>
w_vars == <<w_pc, w_path, w_data, w_old, w_fs>>
m_vars == <<m_pc, m_left_a, m_left_b, m_map_a, m_map_b, m_offset, m_drop>>
r_vars == <<r_pc, r_run, r_k, r_todo, r_one, r_res, r_dup>>
s_vars == <<s_pc, s_dir, s_scan, s_todo, s_renamed, s_out>>
b_vars == <<b_pc, b_attempt, b_now, b_end_wait, b_stop, b_started_at>>
e_vars == <<e_pc, e_in, e_rest, e_data_lines, e_out>>
d_vars == <<d_pc, d_fs, d_now, d_created, d_last>>
t_vars == <<t_pc, t_map, t_latest, t_out>>
p_vars == <<p_pc, p_now, p_last_write, p_map, p_left, p_text, p_disk, p_snaps, p_in>>
o_vars == <<o_pc, o_dir, o_files, o_todo, o_now, o_removed, o_before>>
g_vars == <<g_pc, g_how, g_thread, g_now, g_wake, g_deadline, g_progress_stop, g_stop, g_late>>
fn_vars == <<e_vars, d_vars, t_vars, p_vars, o_vars, g_vars>>
vars == <<drv_vars, w_vars, m_vars, r_vars, s_vars, b_vars, fn_vars>>

----------------------------------------------------------------------------
(* Bounds of the model *)

TicksPerMs == 4         \* resolution of a timestamp below the millisecond
MaxRestarts == 1        \* process starts after the first
MaxSig == 1             \* modifications of the input file
MaxDocs == 3            \* different documents atomic_write_json is given
MaxMergeEvents == 3     \* events of the session whose orders are compared
MaxNameLen == 4         \* pieces of a file name: renames are not stacked beyond
MaxDrift == 1           \* seconds the clock may run ahead between two reads

(* Program constants *)

MaxRetries == 3             \* Config.max_retries (MAX_RETRIES)
RetryDelayBase == 30        \* Config.retry_delay_base (RETRY_DELAY_BASE), seconds
ResumeOverlapMs == 2000     \* Config.resume_overlap_sec (RESUME_OVERLAP_SEC 2.0)
ResumeMinLastEndMs == 5000  \* Config.resume_min_last_end_sec (5.0)
CompleteAtPercent == 98     \* Config.complete_at_percent (0.98)
DropEpsMs == 50             \* the 0.05 s epsilon of the overlap filter
ResumeTailMs == 1000        \* the 1.0 s of "last_end_sec < audio_duration - 1.0"
CheckpointVersion == 3      \* "version": 3

None == "None"           \* None where the other values are strings
NoneSec == -1           \* None where the other values are times
NoFile == [nofile |-> TRUE]     \* no file at the path
Corrupt == [corrupt |-> TRUE]   \* a file json.load fails on
EmptyDict == [f \in {} |-> 0]   \* {}

Ms(n) == n * TicksPerMs
Max(a, b) == IF a >= b THEN a ELSE b

----------------------------------------------------------------------------
(* utils.py *)

\* round(x, 3): the nearest whole millisecond
Round3(t) == ((2 * t + TicksPerMs) \div (2 * TicksPerMs)) * TicksPerMs

\* str.strip() on the texts the model's server sends
Strip(t) ==
    CASE t = " b " -> "b"
      [] t = " "   -> ""
      [] OTHER     -> t

seg_key(start, end, text) == <<Round3(start), Round3(end), Strip(text)>>

----------------------------------------------------------------------------
(* Python dict (insertion-ordered) as a sequence of [k, v] *)

DictKeys(d) == {d[i].k : i \in 1..Len(d)}
DictIndex(d, k) == CHOOSE i \in 1..Len(d) : d[i].k = k
DictGet(d, k) == d[DictIndex(d, k)].v
\* the store that never looks for the key
DictAppend(d, k, v) == Append(d, [k |-> k, v |-> v])

DictPut(d, k, v) ==
    IF k \in DictKeys(d)
    THEN [d EXCEPT ![DictIndex(d, k)] = [k |-> k, v |-> v]]
    ELSE Append(d, [k |-> k, v |-> v])
DictValues(d) == [i \in 1..Len(d) |-> d[i].v]

\* sorted(values, key=lambda x: (x["start"], x["end"])): stable
KeyLess(a, b) == a.start < b.start \/ (a.start = b.start /\ a.end < b.end)

RECURSIVE InsertStable(_, _)
InsertStable(s, x) ==
    IF s = <<>> THEN <<x>>
    ELSE IF KeyLess(x, s[Len(s)]) THEN Append(InsertStable(SubSeq(s, 1, Len(s) - 1), x), s[Len(s)])
    ELSE Append(s, x)

RECURSIVE SortedSegs(_)
SortedSegs(s) ==
    IF s = <<>> THEN <<>>
    ELSE InsertStable(SortedSegs(SubSeq(s, 1, Len(s) - 1)), s[Len(s)])

Seg(startMs, endMs, text) == [start |-> Ms(startMs), end |-> Ms(endMs), text |-> text]
BadSeg == [bad |-> TRUE]    \* an element of "segments" whose times do not convert to float

----------------------------------------------------------------------------
(* worker.py, _transcribe_sse_and_merge: the segment merger *)

\* the overlap filter run against the greatest end stored so far
MergeSegmentRunningMax(d, s, resume_offset, drop_ends_leq) ==
    IF s = BadSeg THEN d
    ELSE LET shift == IF resume_offset > 0 THEN resume_offset ELSE 0
             start == s.start + shift
             end   == s.end + shift
             text  == Strip(s.text)
         IN  IF \E i \in 1..Len(d) : end <= d[i].v.end
             THEN d
             ELSE DictPut(d, seg_key(start, end, text),
                          [start |-> start, end |-> end, text |-> text])

\* the merger whose overlap filter has no epsilon
MergeSegmentNoEpsilon(d, s, resume_offset, drop_ends_leq) ==
    IF s = BadSeg THEN d
    ELSE LET shift == IF resume_offset > 0 THEN resume_offset ELSE 0
             start == s.start + shift
             end   == s.end + shift
             text  == Strip(s.text)
         IN  IF drop_ends_leq # NoneSec /\ end <= drop_ends_leq
             THEN d
             ELSE DictPut(d, seg_key(start, end, text),
                          [start |-> start, end |-> end, text |-> text])

\* the merger without the time shift
MergeSegmentNoShift(d, s, resume_offset, drop_ends_leq) ==
    IF s = BadSeg THEN d
    ELSE LET text == Strip(s.text)
         IN  IF drop_ends_leq # NoneSec /\ s.end <= drop_ends_leq + Ms(DropEpsMs)
             THEN d
             ELSE DictPut(d, seg_key(s.start, s.end, text),
                          [start |-> s.start, end |-> s.end, text |-> text])

\* lines 243, 250-262: one element of an event's "segments"
MergeSegment(d, s, resume_offset, drop_ends_leq) ==
    IF s = BadSeg THEN d
    ELSE LET shift == IF resume_offset > 0 THEN resume_offset ELSE 0
             start == s.start + shift
             end   == s.end + shift
             text  == Strip(s.text)
         IN  IF drop_ends_leq # NoneSec /\ end <= drop_ends_leq + Ms(DropEpsMs)
             THEN d
             ELSE DictPut(d, seg_key(start, end, text),
                          [start |-> start, end |-> end, text |-> text])

\* lines 248-264: the loop over an event's "segments"
RECURSIVE MergeSegments(_, _, _, _)
MergeSegments(d, segs, resume_offset, drop_ends_leq) ==
    IF segs = <<>> THEN d
    ELSE MergeSegments(MergeSegment(d, Head(segs), resume_offset, drop_ends_leq),
                       Tail(segs), resume_offset, drop_ends_leq)

\* line 263: changed is set by every segment that is stored
Stored(s, resume_offset, drop_ends_leq) ==
    /\ s # BadSeg
    /\ ~(drop_ends_leq # NoneSec
         /\ s.end + (IF resume_offset > 0 THEN resume_offset ELSE 0)
              <= drop_ends_leq + Ms(DropEpsMs))

Changed(segs, resume_offset, drop_ends_leq) ==
    \E i \in 1..Len(segs) : Stored(segs[i], resume_offset, drop_ends_leq)

\* the greatest end of the list in place of the end of its last element
LastEndGreatest(seg_list) ==
    IF seg_list = <<>> THEN NoneSec
    ELSE CHOOSE e \in {seg_list[i].end : i \in 1..Len(seg_list)} :
            \A i \in 1..Len(seg_list) : seg_list[i].end <= e

\* seg_list[-1]["end"] if seg_list else None
LastEnd(seg_list) == IF seg_list = <<>> THEN NoneSec ELSE seg_list[Len(seg_list)].end

Update(rec, upd) ==
    [f \in DOMAIN rec \cup DOMAIN upd |-> IF f \in DOMAIN upd THEN upd[f] ELSE rec[f]]

----------------------------------------------------------------------------
(* checkpoint.py and the checkpoint documents process_one_file writes *)

\* load_checkpoint(path) or {}
LoadOrEmpty(d) == IF d = NoFile \/ d = Corrupt THEN EmptyDict ELSE d

\* dict.get(key, default)
Get(rec, f, default) == IF f \in DOMAIN rec THEN rec[f] ELSE default

\* the signature gate that takes every checkpoint for another file's
SignatureNeverMatches(cp, s) == TRUE

\* the signature gate asking only whether a signature is stored
SignatureMissing(cp, s) == "file_signature" \notin DOMAIN cp

\* worker.py 314: cp.get("file_signature") != sig
SignatureMismatch(cp, s) == Get(cp, "file_signature", NoneSec) # s

\* worker.py 315-327 (created_at and updated_at, wall-clock stamps, are left out)
FreshCheckpoint(s) ==
    [version |-> CheckpointVersion, file_name |-> "input", file_path |-> "input",
     file_signature |-> s, attempts |-> 0, state |-> "pending",
     segments |-> <<>>, last_end_sec |-> NoneSec, latest_text |-> ""]

\* the attempt counted a second time when it is persisted
AttemptRecordTwice(cp, n) == Update(cp, [attempts |-> n + 1, state |-> "in_progress"])

\* worker.py 382-385
AttemptRecord(cp, n) == Update(cp, [attempts |-> n, state |-> "in_progress"])

\* worker.py 280-291
SnapshotRecord(cp, d, text) ==
    LET seg_list == SortedSegs(DictValues(d))
    IN  Update(cp, [state |-> "in_progress", segments |-> seg_list,
                    last_end_sec |-> LastEnd(seg_list), latest_text |-> text])

\* the interrupted record written without the segments of the map
InterruptedRecordStale(cp, d, text) ==
    Update(cp, [state |-> "interrupted",
                latest_text |-> IF text = "Unset" THEN "" ELSE text])

\* worker.py 496-502
InterruptedRecord(cp, d, text) ==
    LET seg_list == SortedSegs(DictValues(d))
    IN  Update(cp, [state |-> "interrupted", segments |-> seg_list,
                    last_end_sec |-> LastEnd(seg_list),
                    latest_text |-> IF text = "Unset" THEN "" ELSE text])

\* the failure record written without the segments of the map
FailedRecordStale(cp, d, err) ==
    Update(cp, [state |-> "failed_attempt", last_error |-> err])

\* worker.py 519-525
FailedRecord(cp, d, err) ==
    LET seg_list == SortedSegs(DictValues(d))
    IN  Update(cp, [state |-> "failed_attempt", last_error |-> err,
                    segments |-> seg_list, last_end_sec |-> LastEnd(seg_list)])

\* the final record written without its state
PermanentRecordKept(cp) == cp

\* worker.py 562-564
PermanentRecord(cp) == Update(cp, [state |-> "permanent_failed"])

\* the map of every call starting empty
RebuildMapEmpty(segs) == <<>>

\* worker.py 357-369: the segment map rebuilt from a loaded checkpoint
RECURSIVE RebuildMap(_)
RebuildMap(segs) ==
    IF segs = <<>> THEN <<>>
    ELSE LET s == segs[Len(segs)]
             text == Strip(s.text)
         IN  DictPut(RebuildMap(SubSeq(segs, 1, Len(segs) - 1)),
                     seg_key(s.start, s.end, text),
                     [start |-> s.start, end |-> s.end, text |-> text])

\* the resume decision asking for more than resume_min_last_end_sec
ResumeModeStrict(enabled, duration, last_end) ==
    /\ enabled
    /\ duration # NoneSec /\ duration > 0
    /\ last_end # NoneSec
    /\ last_end > Ms(ResumeMinLastEndMs)
    /\ last_end < duration - Ms(ResumeTailMs)

\* worker.py 394-401
ResumeMode(enabled, duration, last_end) ==
    /\ enabled
    /\ duration # NoneSec /\ duration > 0
    /\ last_end # NoneSec
    /\ last_end >= Ms(ResumeMinLastEndMs)
    /\ last_end < duration - Ms(ResumeTailMs)

\* worker.py 403
ResumeOffset(last_end) == Max(0, last_end - Ms(ResumeOverlapMs))

\* the completion check with its comparison turned round
IncompleteReversed(duration, seg_list) ==
    /\ duration # NoneSec /\ duration > 0
    /\ seg_list # <<>>
    /\ seg_list[Len(seg_list)].end * 100 > CompleteAtPercent * duration

\* worker.py 455-458: pct < complete_at_percent
Incomplete(duration, seg_list) ==
    /\ duration # NoneSec /\ duration > 0
    /\ seg_list # <<>>
    /\ seg_list[Len(seg_list)].end * 100 < CompleteAtPercent * duration

\* " ".join(texts).strip(), kept as the sequence of the texts joined: the
\* empty texts at either end add only spaces, which strip() removes
RECURSIVE TrimEnds(_)
TrimEnds(ws) ==
    IF ws = <<>> THEN <<>>
    ELSE IF Head(ws) = "" THEN TrimEnds(Tail(ws))
    ELSE IF ws[Len(ws)] = "" THEN TrimEnds(SubSeq(ws, 1, Len(ws) - 1))
    ELSE ws

\* latest_text taken first and the segments only where it is empty
TranscriptLatestFirst(seg_list, latest) ==
    LET joined == TrimEnds([i \in 1..Len(seg_list) |-> Strip(seg_list[i].text)])
    IN  IF TrimEnds(<<Strip(latest)>>) # <<>> THEN TrimEnds(<<Strip(latest)>>) ELSE joined

\* worker.py 465-467
Transcript(seg_list, latest) ==
    LET joined == TrimEnds([i \in 1..Len(seg_list) |-> Strip(seg_list[i].text)])
    IN  IF joined = <<>> THEN TrimEnds(<<Strip(latest)>>) ELSE joined

----------------------------------------------------------------------------
(* The transcription server as the worker sees it *)

Duration == Ms(60000)       \* what ffprobe reports for the input, when it reports

\* what is spoken in the input, as the server segments it
TrueSegments == <<Seg(0, 4000, "a"), Seg(4000, 5000, " b "), Seg(5000, 60000, "c")>>

\* The server is sent the part of the input from offset on and reports what
\* ends after it, with times counted from the start of the upload; a segment
\* the cut goes through is transcribed again from its rest
RelSeg(t, offset) ==
    [start |-> Max(0, t.start - offset), end |-> t.end - offset,
     text |-> IF t.start < offset THEN "dup" ELSE t.text]

RelSegs(ts, offset) ==
    LET kept == SelectSeq(ts, LAMBDA t : t.end > offset)
    IN  [i \in 1..Len(kept) |-> RelSeg(kept[i], offset)]

\* The SSE payloads of one upload in the order the server sends them: each
\* position holds the payloads the server may send there.  "json" is an
\* object with optional "text" and "segments", "notjson" fails json.loads,
\* "nonobject" is JSON that is no object.  Of a resume chunk the server may
\* also report everything as one long segment
Stream(offset) ==
    << { [kind |-> "json", text |-> "a",
          segments |-> RelSegs(SubSeq(TrueSegments, 1, 2), offset)],
         [kind |-> "notjson"],
         [kind |-> "nonobject"] }
       \cup (IF offset > 0
             THEN { [kind |-> "json", text |-> "bc",
                     segments |-> <<[start |-> 0, end |-> Duration - offset,
                                     text |-> "bc"]>>] }
             ELSE {}),
       { [kind |-> "json",
          segments |-> RelSegs(SubSeq(TrueSegments, 3, 3), offset) \o <<BadSeg>>],
         [kind |-> "notjson"] } >>

----------------------------------------------------------------------------
(* The driver: main.py's loop and worker.py's process_one_file *)

NoOutputs == [none |-> TRUE]

loc_vars == <<attempt, last_end_sec, segments_map, audio_duration, use_path, tmp_path,
              resume_offset_sec, drop_ends_leq_sec, latest_text, sess_text,
              last_checkpoint_write, n_events>>
sess_vars == <<sess_text, last_checkpoint_write, n_events>>
other_vars == <<w_vars, m_vars, r_vars, s_vars, b_vars, fn_vars>>

\* the locals of a process_one_file call that is not running
LocalsGone ==
    /\ attempt' = 0
    /\ last_end_sec' = NoneSec
    /\ segments_map' = <<>>
    /\ audio_duration' = NoneSec
    /\ use_path' = "input"
    /\ tmp_path' = None
    /\ resume_offset_sec' = 0
    /\ drop_ends_leq_sec' = NoneSec
    /\ latest_text' = "Unset"
    /\ sess_text' = ""
    /\ last_checkpoint_write' = 0
    /\ n_events' = 0

SourceExists(p) == IF p = "clean" THEN clean ELSE src = "input"

\* worker.py 544-556: the attempt's finally block
Cleanup ==
    /\ chunk' = IF tmp_path # None THEN FALSE ELSE chunk
    /\ clean' = IF use_path = "clean" THEN FALSE ELSE clean

DrvInit ==
    /\ src = "input" /\ sig = 0 /\ disk = NoFile /\ outputs = NoOutputs
    /\ chunk = FALSE /\ clean = FALSE
    /\ stop = FALSE /\ pc = "idle"
    /\ attempt = 0 /\ last_end_sec = NoneSec /\ segments_map = <<>>
    /\ audio_duration = NoneSec /\ use_path = "input" /\ tmp_path = None
    /\ resume_offset_sec = 0 /\ drop_ends_leq_sec = NoneSec
    /\ latest_text = "Unset" /\ sess_text = "" /\ last_checkpoint_write = 0
    /\ n_events = 0
    /\ restarts = 0 /\ attempts_before = 0 /\ last_op = "init"

\* main.py 56-59 and worker.py 305-376: the file is picked up, the checkpoint
\* loaded or made afresh, the silence removed, the duration probed, the map rebuilt
Start ==
    /\ pc = "idle" /\ src = "input" /\ ~stop
    /\ \E vad \in BOOLEAN, dur \in {NoneSec, Duration} :
        LET loaded == LoadOrEmpty(disk)
            cp == IF SignatureMismatch(loaded, sig)
                  THEN FreshCheckpoint(sig) ELSE loaded
        IN  /\ disk' = cp
            /\ use_path' = IF vad THEN "clean" ELSE "input"
            /\ clean' = (clean \/ vad)
            /\ audio_duration' = dur
            /\ segments_map' = RebuildMap(Get(cp, "segments", <<>>))
            /\ attempt' = Get(cp, "attempts", 0)
            /\ last_end_sec' = Get(cp, "last_end_sec", NoneSec)
    /\ pc' = "loop"
    /\ last_op' = IF Get(LoadOrEmpty(disk), "segments", <<>>) # <<>>
                     /\ SignatureMismatch(LoadOrEmpty(disk), sig)
                  THEN "running_rebuilt" ELSE "running"
    /\ UNCHANGED <<src, sig, outputs, chunk, stop, tmp_path, resume_offset_sec,
                   drop_ends_leq_sec, latest_text, sess_vars, rename_failed, resume_enabled,
                   restarts, attempts_before, other_vars>>

\* worker.py 416-417: the file ffmpeg_cut_resume_chunk cuts the chunk from
CutSource == use_path

\* worker.py 378-438: the loop test passes, the attempt is counted and persisted,
\* resume mode decided and the resume chunk cut.  A failing cut raises outside
\* the try block and leaves process_one_file; the ffmpeg that failed may have
\* left what it wrote of the chunk (ffmpeg.py 115-117)
AttemptStart ==
    /\ pc = "loop" /\ attempt < MaxRetries /\ ~stop
    /\ attempts_before' = Get(LoadOrEmpty(disk), "attempts", 0)
    /\ disk' = AttemptRecord(LoadOrEmpty(disk), attempt + 1)
    /\ IF ResumeMode(resume_enabled, audio_duration, last_end_sec)
       THEN \E cut_ok \in BOOLEAN :
              IF cut_ok /\ SourceExists(CutSource)
              THEN /\ resume_offset_sec' = ResumeOffset(last_end_sec)
                   /\ drop_ends_leq_sec' = last_end_sec
                   /\ tmp_path' = "chunk"
                   /\ chunk' = TRUE
                   /\ attempt' = attempt + 1
                   /\ pc' = "session"
                   /\ UNCHANGED last_op
                   /\ UNCHANGED <<last_end_sec, segments_map, audio_duration, use_path,
                                  latest_text>>
              ELSE /\ pc' = "idle"
                   /\ last_op' = "cut_failed"
                   /\ chunk' \in BOOLEAN
                   /\ attempt' = 0 /\ last_end_sec' = NoneSec /\ segments_map' = <<>>
                   /\ audio_duration' = NoneSec /\ use_path' = "input"
                   /\ tmp_path' = None /\ resume_offset_sec' = 0
                   /\ drop_ends_leq_sec' = NoneSec /\ latest_text' = "Unset"
       ELSE /\ resume_offset_sec' = 0
            /\ drop_ends_leq_sec' = NoneSec
            /\ tmp_path' = None
            /\ attempt' = attempt + 1
            /\ pc' = "session"
            /\ UNCHANGED last_op
            /\ UNCHANGED <<chunk, last_end_sec, segments_map, audio_duration, use_path,
                           latest_text>>
    /\ sess_text' = "" /\ last_checkpoint_write' = 0 /\ n_events' = 0
    /\ UNCHANGED <<src, sig, outputs, clean, stop, rename_failed, resume_enabled, restarts, other_vars>>

\* the file the session opens: the resume chunk, or use_path
TargetExists == IF tmp_path # None THEN chunk ELSE SourceExists(use_path)

\* worker.py 493-504 and 544-556: the driver's ShutdownRequested handler,
\* after which the exception leaves process_one_file
OnShutdown ==
    /\ disk' = InterruptedRecord(LoadOrEmpty(disk), segments_map, latest_text)
    /\ Cleanup
    /\ LocalsGone
    /\ pc' = "idle"
    /\ last_op' = IF Get(LoadOrEmpty(disk), "segments", <<>>)
                       = SortedSegs(DictValues(segments_map))
                  THEN "shutdown" ELSE "shutdown_unsaved"
    /\ UNCHANGED <<src, sig, outputs, stop, rename_failed, resume_enabled, restarts, attempts_before,
                   other_vars>>

\* worker.py 509-542: the driver's handler of any other exception; text is
\* the value of the local latest_text when the exception was raised
OnFailure(err, text) ==
    /\ disk' = FailedRecord(LoadOrEmpty(disk), segments_map, err)
    /\ last_end_sec' = LastEnd(SortedSegs(DictValues(segments_map)))
    /\ latest_text' = text
    /\ IF attempt >= MaxRetries
       THEN /\ Cleanup
            /\ pc' = "loop"
       ELSE /\ pc' = "backoff"
            /\ UNCHANGED <<chunk, clean>>
    /\ UNCHANGED last_op
    /\ UNCHANGED <<src, sig, outputs, stop, attempt, segments_map, audio_duration,
                   use_path, tmp_path, resume_offset_sec, drop_ends_leq_sec, sess_vars,
                   rename_failed, resume_enabled, restarts, attempts_before, other_vars>>

\* worker.py 223-292: one SSE payload reaches the ingestion loop; due says
\* whether checkpoint_save_interval has passed since the last snapshot
SessionEvent ==
    /\ pc = "session" /\ TargetExists
    /\ n_events < Len(Stream(resume_offset_sec))
    /\ \E p \in Stream(resume_offset_sec)[n_events + 1], due \in BOOLEAN :
        IF stop THEN OnShutdown
        ELSE IF p.kind = "nonobject" THEN OnFailure("AttributeError", latest_text)
        ELSE IF p.kind = "notjson" \/ "segments" \notin DOMAIN p
        THEN /\ sess_text' = IF p.kind = "json" /\ "text" \in DOMAIN p
                             THEN p.text ELSE sess_text
             /\ n_events' = n_events + 1
             /\ UNCHANGED last_op
             /\ UNCHANGED <<src, sig, disk, outputs, chunk, clean, stop, pc, attempt,
                            last_end_sec, segments_map, audio_duration, use_path,
                            tmp_path, resume_offset_sec, drop_ends_leq_sec, latest_text,
                            last_checkpoint_write, rename_failed, resume_enabled, restarts,
                            attempts_before, other_vars>>
        ELSE LET text == IF "text" \in DOMAIN p THEN p.text ELSE sess_text
                 merged == MergeSegments(segments_map, p.segments,
                                         resume_offset_sec, drop_ends_leq_sec)
                 write == /\ Changed(p.segments, resume_offset_sec, drop_ends_leq_sec)
                          /\ (last_checkpoint_write = 0 \/ due)
             IN  /\ sess_text' = text
                 /\ segments_map' = merged
                 /\ disk' = IF write
                            THEN SnapshotRecord(LoadOrEmpty(disk), merged, text)
                            ELSE disk
                 /\ last_checkpoint_write' = IF write THEN 1 ELSE last_checkpoint_write
                 /\ n_events' = n_events + 1
                 /\ UNCHANGED last_op
                 /\ UNCHANGED <<src, sig, outputs, chunk, clean, stop, pc, attempt,
                                last_end_sec, audio_duration, use_path, tmp_path,
                                resume_offset_sec, drop_ends_leq_sec, latest_text,
                                rename_failed, resume_enabled, restarts, attempts_before, other_vars>>

\* worker.py 211-221 and the reads of the body: opening the upload, the POST,
\* raise_for_status or a broken stream raise
SessionError ==
    /\ pc = "session"
    /\ OnFailure("RequestException", latest_text)

\* the end of the stream without the stop check of worker.py 294-295
StreamEndUnchecked ==
    /\ pc = "session" /\ TargetExists
    /\ LET seg_list == SortedSegs(DictValues(segments_map))
       IN  IF Incomplete(audio_duration, seg_list)
           THEN OnFailure("Incomplete transcription", sess_text)
           ELSE /\ outputs' = [transcript |-> Transcript(seg_list, sess_text),
                               segments |-> seg_list,
                               duration_sec |-> audio_duration]
                /\ latest_text' = sess_text
                /\ pc' = "rename"
                /\ UNCHANGED last_op
                /\ UNCHANGED <<src, sig, disk, chunk, clean, stop, attempt,
                               last_end_sec, segments_map, audio_duration, use_path,
                               tmp_path, resume_offset_sec, drop_ends_leq_sec,
                               sess_vars, rename_failed, resume_enabled, restarts,
                               attempts_before, other_vars>>

\* worker.py 228-229, 294-297, 452-477: the stream ends ([DONE] or EOF), the
\* session returns latest_text, the driver validates and writes the outputs
StreamEnd ==
    /\ pc = "session" /\ TargetExists
    /\ IF stop THEN OnShutdown
       ELSE LET seg_list == SortedSegs(DictValues(segments_map))
            IN  IF Incomplete(audio_duration, seg_list)
                THEN OnFailure("Incomplete transcription", sess_text)
                ELSE /\ outputs' = [transcript |-> Transcript(seg_list, sess_text),
                                    segments |-> seg_list,
                                    duration_sec |-> audio_duration]
                     /\ latest_text' = sess_text
                     /\ pc' = "rename"
                     /\ UNCHANGED last_op
                     /\ UNCHANGED <<src, sig, disk, chunk, clean, stop, attempt,
                                    last_end_sec, segments_map, audio_duration, use_path,
                                    tmp_path, resume_offset_sec, drop_ends_leq_sec,
                                    sess_vars, rename_failed, resume_enabled, restarts, attempts_before,
                                    other_vars>>

\* worker.py 478 (rename_processed, 56-63)
RenameProcessed ==
    /\ pc = "rename"
    /\ src' = "processed"
    /\ pc' = "delcp"
    /\ UNCHANGED last_op
    /\ UNCHANGED <<sig, disk, outputs, chunk, clean, stop, loc_vars, rename_failed, resume_enabled,
                   restarts, attempts_before, other_vars>>

\* the success path returning without the soft-delete of the checkpoint
DeleteCheckpointSkipped ==
    /\ pc = "delcp"
    /\ disk' = disk
    /\ Cleanup
    /\ LocalsGone
    /\ pc' = "idle"
    /\ last_op' = "success"
    /\ UNCHANGED <<src, sig, outputs, stop, rename_failed, resume_enabled, restarts,
                   attempts_before, other_vars>>

\* worker.py 480-491 and 544-556: the checkpoint is soft-deleted, the attempt
\* cleaned up, process_one_file returns
DeleteCheckpoint ==
    /\ pc = "delcp"
    /\ disk' = NoFile
    /\ Cleanup
    /\ LocalsGone
    /\ pc' = "idle"
    /\ last_op' = "success"
    /\ UNCHANGED <<src, sig, outputs, stop, rename_failed, resume_enabled, restarts, attempts_before,
                   other_vars>>

\* worker.py 538-556: the backoff sleep ends, by the delay running out or by
\* the stop signal, and the attempt is cleaned up
BackoffEnd ==
    /\ pc = "backoff"
    /\ Cleanup
    /\ pc' = "loop"
    /\ UNCHANGED last_op
    /\ UNCHANGED <<src, sig, disk, outputs, stop, loc_vars, rename_failed, resume_enabled, restarts,
                   attempts_before, other_vars>>

\* worker.py 378 and 558-565: the loop is left, by its test or by the break
LoopExit ==
    /\ pc = "loop" /\ ~(attempt < MaxRetries /\ ~stop)
    /\ disk' = PermanentRecord(LoadOrEmpty(disk))
    /\ pc' = "final"
    /\ UNCHANGED last_op
    /\ UNCHANGED <<src, sig, outputs, chunk, clean, stop, loc_vars, rename_failed, resume_enabled,
                   restarts, attempts_before, other_vars>>

\* worker.py 567-574 (rename_failed, 65-72)
FinalRename ==
    /\ pc = "final"
    /\ IF rename_failed /\ src = "input"
       THEN /\ src' = "failed"
            /\ disk' = Update(IF disk = NoFile \/ disk = Corrupt
                              THEN PermanentRecord(EmptyDict) ELSE disk,
                              [file_path |-> "failed"])
       ELSE UNCHANGED <<src, disk>>
    /\ LocalsGone
    /\ pc' = "idle"
    /\ last_op' = "returned"
    /\ UNCHANGED <<sig, outputs, chunk, clean, stop, rename_failed, resume_enabled, restarts,
                   attempts_before, other_vars>>

\* main.py 21-26: SIGINT or SIGTERM
SetStop ==
    /\ ~stop
    /\ stop' = TRUE
    /\ UNCHANGED <<src, sig, disk, outputs, chunk, clean, pc, loc_vars, rename_failed, resume_enabled,
                   restarts, attempts_before, last_op, other_vars>>

\* checkpoint.py 28-48 on the one checkpoint of the model
OrphanCleanup(d) ==
    IF d = NoFile THEN NoFile
    ELSE IF d = Corrupt \/ d = EmptyDict THEN NoFile
    ELSE IF Get(d, "file_path", None) = src THEN d
    ELSE NoFile

\* The process ends at any point (killed, or main's loop left after the stop
\* signal) and is started again: main.py 16-40, checkpoint.py 28-69
Restart ==
    /\ restarts < MaxRestarts
    /\ restarts' = restarts + 1
    /\ stop' = FALSE
    /\ disk' = OrphanCleanup(disk)
    /\ chunk' = FALSE /\ clean' = FALSE
    /\ LocalsGone
    /\ pc' = "idle"
    /\ last_op' = "restart"
    /\ UNCHANGED <<src, sig, outputs, rename_failed, resume_enabled, attempts_before, other_vars>>

\* the environment: the input file is modified between two calls
ModifyInput ==
    /\ pc = "idle" /\ src = "input" /\ sig < MaxSig
    /\ sig' = sig + 1
    /\ last_op' = "env"
    /\ UNCHANGED <<src, disk, outputs, chunk, clean, stop, pc, loc_vars, rename_failed, resume_enabled,
                   restarts, attempts_before, other_vars>>

\* the environment: the checkpoint file is truncated between two calls
TruncateCheckpoint ==
    /\ pc = "idle" /\ disk # NoFile /\ disk # Corrupt
    /\ disk' = Corrupt
    /\ last_op' = "env"
    /\ UNCHANGED <<src, sig, outputs, chunk, clean, stop, pc, loc_vars, rename_failed, resume_enabled,
                   restarts, attempts_before, other_vars>>

\* main's loop has not scanned
ScanOff ==
    /\ s_pc = "off" /\ s_dir = {} /\ s_scan = <<>> /\ s_todo = <<>> /\ s_renamed = {}
    /\ s_out = {}

\* no attempt has failed
BackoffOff ==
    /\ b_pc = "off" /\ b_attempt = 0 /\ b_now = 0 /\ b_end_wait = 0
    /\ b_stop = FALSE /\ b_started_at = NoneSec

\* iter_sse_data has not been called
SseOff ==
    /\ e_pc = "off" /\ e_in = <<>> /\ e_rest = <<>> /\ e_data_lines = <<>> /\ e_out = <<>>

\* soft_delete has not been called
DeleteOff ==
    /\ d_pc = "off" /\ d_fs = {} /\ d_now = 0 /\ d_created = 0 /\ d_last = NoFile

\* no session has finished
TranscriptOff ==
    /\ t_pc = "off" /\ t_map = <<>> /\ t_latest = "" /\ t_out = NoFile

\* no session is watched against the clock
SnapshotOff ==
    /\ p_pc = "off" /\ p_now = 0 /\ p_last_write = 0 /\ p_map = <<>> /\ p_left = <<>>
    /\ p_text = "" /\ p_disk = NoFile /\ p_snaps = <<>> /\ p_in = <<>>

\* no orphan cleanup is looked at
OrphanOff ==
    /\ o_pc = "off" /\ o_dir = <<>> /\ o_files = {} /\ o_todo = {} /\ o_now = 0
    /\ o_removed = 0 /\ o_before = <<>>

\* no progress reporter is looked at
ProgressOff ==
    /\ g_pc = "off" /\ g_how = "off" /\ g_thread = "off" /\ g_now = 0 /\ g_wake = 0
    /\ g_deadline = 0 /\ g_progress_stop = FALSE /\ g_stop = FALSE /\ g_late = 0

FnOff == SseOff /\ DeleteOff /\ TranscriptOff /\ SnapshotOff /\ OrphanOff /\ ProgressOff

\* no save, no pair of sessions and no resumed run is looked at
PartsOff ==
    /\ w_pc = "off" /\ w_path = None /\ w_data = 0 /\ w_old = NoFile
    /\ w_fs = [f \in {} |-> NoFile]
    /\ m_pc = "off" /\ m_left_a = <<>> /\ m_left_b = <<>> /\ m_map_a = <<>>
    /\ m_map_b = <<>> /\ m_offset = 0 /\ m_drop = NoneSec
    /\ r_pc = "off" /\ r_run = <<>> /\ r_k = 0 /\ r_todo = <<>> /\ r_one = <<>>
    /\ r_res = <<>> /\ r_dup = FALSE

OtherInit ==
    /\ ScanOff /\ BackoffOff /\ FnOff /\ PartsOff

Init ==
    /\ DrvInit
    /\ rename_failed \in BOOLEAN /\ resume_enabled \in BOOLEAN
    /\ OtherInit

Next ==
    \/ Start
    \/ AttemptStart
    \/ SessionEvent
    \/ SessionError
    \/ StreamEnd
    \/ RenameProcessed
    \/ DeleteCheckpoint
    \/ BackoffEnd
    \/ LoopExit
    \/ FinalRename
    \/ SetStop
    \/ Restart
    \/ ModifyInput
    \/ TruncateCheckpoint

Spec == Init /\ [][Next]_vars

----------------------------------------------------------------------------
(* Claims about the driver, checked under Spec *)

StateOf(d) == IF d = NoFile \/ d = Corrupt THEN "absent" ELSE Get(d, "state", "absent")

RECURSIVE MaxEnd(_)
MaxEnd(segs) ==
    IF segs = <<>> THEN NoneSec
    ELSE Max(segs[Len(segs)].end, MaxEnd(SubSeq(segs, 1, Len(segs) - 1)))

\* last_end / duration < complete_at_percent, last_end the greatest end
BelowThreshold(duration, segs) ==
    /\ duration # NoneSec /\ duration > 0
    /\ segs # <<>>
    /\ MaxEnd(segs) * 100 < CompleteAtPercent * duration

\* C2: when the duration is known and a session returns with last_end /
\* duration below complete_at_percent, the attempt is persisted as
\* failed_attempt, no output is written and the source keeps its name; and
\* whatever outputs exist were written by an attempt that was not below the
\* threshold
C2_CompletionGate ==
    /\ [](outputs # NoOutputs
            => ~BelowThreshold(outputs.duration_sec, outputs.segments))
    /\ [](src = "processed" => outputs # NoOutputs)
    /\ [][(StreamEnd /\ ~stop
           /\ BelowThreshold(audio_duration, DictValues(segments_map)))
          => /\ StateOf(disk') = "failed_attempt"
             /\ pc' \in {"backoff", "loop"}
             /\ outputs' = outputs
             /\ src' = src]_vars

\* C2 witness: an attempt failed as incomplete and no output exists
C2_Witness ==
    /\ StateOf(disk) = "failed_attempt"
    /\ disk.last_error = "Incomplete transcription"
    /\ disk.segments # <<>>
    /\ outputs = NoOutputs
    /\ src = "input"

\* C3: with a known duration > 0, no attempt whose session delivered no
\* segment is declared successful: outputs are never written with no segment
\* and an empty transcript
C3_ZeroSegmentsRetried ==
    (outputs # NoOutputs /\ outputs.duration_sec # NoneSec /\ outputs.duration_sec > 0)
        => (outputs.segments # <<>> /\ outputs.transcript # <<>>)

\* C4: permanent_failed is persisted, and the source renamed failed_, only
\* when max_retries attempts were made; a stop signal before an attempt or
\* during the backoff sleep leaves the file resumable
C4_PermanentOnlyWhenExhausted ==
    /\ [](StateOf(disk) = "permanent_failed" => disk.attempts >= MaxRetries)
    /\ [][(src' = "failed" /\ src = "input") => attempt >= MaxRetries]_vars

\* C5: the attempts value of the interrupted checkpoint equals the attempts
\* value persisted before the interrupted attempt began
C5_InterruptedAttemptNotCounted ==
    (last_op \in {"shutdown", "shutdown_unsaved"} /\ StateOf(disk) = "interrupted")
        => disk.attempts = attempts_before

\* C6: when a session raises ShutdownRequested (the stop signal is set when
\* an event arrives or the stream ends), the checkpoint the driver leaves has
\* state interrupted and holds exactly the sorted segments of the map, the
\* call ends, no output is written and the source keeps its name
C6_InterruptedHoldsTheMap ==
    [][((SessionEvent \/ StreamEnd) /\ stop)
       => /\ StateOf(disk') = "interrupted"
          /\ disk'.segments = SortedSegs(DictValues(segments_map))
          /\ pc' = "idle"
          /\ outputs' = outputs
          /\ src' = src]_vars

\* C6 witness: a call ended by ShutdownRequested while the map held segments
\* that no snapshot had written
C6_Witness ==
    /\ last_op = "shutdown_unsaved"
    /\ StateOf(disk) = "interrupted"
    /\ Len(disk.segments) >= 2
    /\ pc = "idle"

\* C7: when process_one_file starts on a checkpoint that is missing,
\* unparsable or of another signature, it persists a fresh pending record
\* (attempts 0, no segments, last_end_sec null) before any attempt, and the
\* segment map starts empty
C7_SignatureGate ==
    [][(Start /\ (disk = NoFile \/ disk = Corrupt \/ disk.file_signature # sig))
       => /\ disk' = FreshCheckpoint(sig)
          /\ StateOf(disk') = "pending"
          /\ disk'.attempts = 0 /\ disk'.segments = <<>>
          /\ disk'.last_end_sec = NoneSec
          /\ segments_map' = <<>> /\ attempt' = 0 /\ last_end_sec' = NoneSec
          /\ pc' = "loop"]_vars

\* C7 witness: a call started on a record of another signature that held
\* segments, and has rebuilt it
C7_Witness ==
    /\ last_op = "running_rebuilt"
    /\ pc = "loop"
    /\ StateOf(disk) = "pending"
    /\ segments_map = <<>>

\* the transitions of the per-file state machine
AllowedTransition(a, b) ==
    \/ a = "absent" /\ b = "pending"
    \/ a = "pending" /\ b = "in_progress"
    \/ a = "in_progress" /\ b \in {"in_progress", "failed_attempt", "interrupted", "absent"}
    \/ a = "failed_attempt" /\ b \in {"in_progress", "permanent_failed"}
    \/ a = "interrupted" /\ b = "in_progress"

\* C8: every change of the persisted state field made by the driver follows
\* the state machine (a record replaced because the signature changed or the
\* file was unparsable is a creation, and what the environment and the
\* start-up cleanup do to the file is not the driver's)
C8_StateMachine ==
    [][\/ StateOf(disk') = StateOf(disk)
       \/ TruncateCheckpoint \/ Restart
       \/ (Start /\ StateOf(disk') = "pending")
       \/ AllowedTransition(StateOf(disk), StateOf(disk'))]_vars

\* the segment list is ascending by (start, end)
IsSortedSegs(segs) == \A i \in 1..(Len(segs) - 1) : ~KeyLess(segs[i + 1], segs[i])

\* no two entries of the segment list share the segment key
NoDuplicateKeys(segs) ==
    \A i, j \in 1..Len(segs) :
        i < j => seg_key(segs[i].start, segs[i].end, segs[i].text)
                   # seg_key(segs[j].start, segs[j].end, segs[j].text)

\* C11: the segment list of every persisted checkpoint and of the
\* timestamped output is sorted ascending by (start, end) and holds no two
\* entries with the same segment key
C11_SortedNoDuplicates ==
    /\ IsSortedSegs(Get(disk, "segments", <<>>))
    /\ NoDuplicateKeys(Get(disk, "segments", <<>>))
    /\ outputs # NoOutputs
         => IsSortedSegs(outputs.segments) /\ NoDuplicateKeys(outputs.segments)

\* C11 witness: a later attempt that uploaded the whole file again, so that
\* every segment of the earlier attempt arrived a second time, has written
\* its outputs
C11_Witness ==
    /\ pc = "rename" /\ attempt >= 2 /\ resume_offset_sec = 0
    /\ outputs # NoOutputs /\ Len(outputs.segments) >= 3
    /\ Len(Get(disk, "segments", <<>>)) >= 2

\* C12: the last_end_sec the driver persists, and the one it holds for the
\* resume decision, is the greatest end of the segments of the map, and null
\* exactly when there is none
C12_LastEndIsMaxEnd ==
    /\ "last_end_sec" \in DOMAIN disk
         => disk.last_end_sec = MaxEnd(Get(disk, "segments", <<>>))
    /\ pc \in {"loop", "backoff"}
         => last_end_sec = MaxEnd(DictValues(segments_map))

\* C13: in every persisted checkpoint a last_end_sec that is not null is the
\* end of the last element of the persisted segments
C13_LastEndIsLastSegmentEnd ==
    ("last_end_sec" \in DOMAIN disk /\ disk.last_end_sec # NoneSec)
        => /\ Get(disk, "segments", <<>>) # <<>>
           /\ disk.last_end_sec = disk.segments[Len(disk.segments)].end

\* C13 witness: a checkpoint whose last segment does not end last
C13_Witness ==
    /\ StateOf(disk) \in {"in_progress", "failed_attempt", "interrupted"}
    /\ Len(Get(disk, "segments", <<>>)) >= 3
    /\ disk.last_end_sec # NoneSec
    /\ disk.last_end_sec # MaxEnd(disk.segments)

\* C14: a persisted checkpoint in state permanent_failed has
\* attempts <= max_retries
C14_PermanentAttemptsBounded ==
    StateOf(disk) = "permanent_failed" => Get(disk, "attempts", 0) <= MaxRetries

\* C14 witness: permanent_failed after the last attempt allowed
C14_Witness ==
    /\ StateOf(disk) = "permanent_failed"
    /\ Get(disk, "attempts", 0) = MaxRetries
    /\ last_op = "returned"

\* C15: an attempt runs in resume mode exactly when resume is enabled, the
\* duration is known and > 0, last_end_sec is known, at least
\* resume_min_last_end_sec and less than duration - 1.0; then the offset is
\* max(0, last_end_sec - resume_overlap_sec), the drop threshold last_end_sec
\* and the upload a freshly cut chunk; otherwise offset 0, no threshold and
\* the whole file
C15_ResumeDecision ==
    [][(pc = "loop" /\ pc' = "session")
       => IF /\ resume_enabled
             /\ audio_duration # NoneSec /\ audio_duration > 0
             /\ last_end_sec # NoneSec
             /\ last_end_sec >= Ms(ResumeMinLastEndMs)
             /\ last_end_sec < audio_duration - Ms(ResumeTailMs)
          THEN /\ resume_offset_sec' = Max(0, last_end_sec - Ms(ResumeOverlapMs))
               /\ drop_ends_leq_sec' = last_end_sec
               /\ tmp_path' = "chunk" /\ chunk'
          ELSE /\ resume_offset_sec' = 0
               /\ drop_ends_leq_sec' = NoneSec
               /\ tmp_path' = None]_vars

\* C15 witness: a session on a resume chunk cut for a last_end_sec of
\* exactly resume_min_last_end_sec
C15_Witness ==
    /\ pc = "session" /\ tmp_path = "chunk" /\ chunk
    /\ last_end_sec = Ms(ResumeMinLastEndMs)
    /\ resume_offset_sec = Ms(ResumeMinLastEndMs) - Ms(ResumeOverlapMs)
    /\ drop_ends_leq_sec = last_end_sec

\* C16: a successful attempt writes the outputs while the source has its
\* name and the checkpoint exists, then renames the source processed_ while
\* the checkpoint exists, then removes the checkpoint; when it returns there
\* is no checkpoint and no file under the source's name
C16_SuccessOrder ==
    /\ [][outputs' # outputs
          => /\ pc = "session" /\ pc' = "rename"
             /\ src = "input" /\ src' = "input"
             /\ StateOf(disk) = "in_progress" /\ disk' = disk]_vars
    /\ [][(src = "input" /\ src' = "processed")
          => /\ pc = "rename" /\ pc' = "delcp"
             /\ outputs # NoOutputs /\ outputs' = outputs
             /\ StateOf(disk) = "in_progress" /\ disk' = disk]_vars
    /\ [][(last_op # "success" /\ last_op' = "success")
          => /\ pc = "delcp" /\ pc' = "idle"
             /\ src = "processed" /\ disk # NoFile /\ disk' = NoFile]_vars
    /\ [](last_op = "success"
            => disk = NoFile /\ src = "processed" /\ outputs # NoOutputs)

\* C16 witness: process_one_file has returned from a successful attempt
C16_Witness ==
    /\ last_op = "success" /\ pc = "idle"
    /\ disk = NoFile /\ src = "processed"
    /\ outputs # NoOutputs /\ Len(outputs.segments) >= 3

\* C17: when process_one_file returns after max_retries failed attempts with
\* no stop signal set, the checkpoint is permanent_failed with attempts =
\* max_retries, with rename_failed set the source is renamed failed_ and the
\* checkpoint's file_path names the new path, and neither a failing attempt
\* nor the steps after the loop write an output
C17_PermanentFailure ==
    /\ []((last_op = "returned" /\ ~stop)
            => /\ StateOf(disk) = "permanent_failed"
               /\ disk.attempts = MaxRetries
               /\ rename_failed => (src # "input" /\ disk.file_path = src)
               /\ ~rename_failed => (src = "input" /\ disk.file_path = "input"))
    /\ [][((pc = "session" /\ pc' \in {"backoff", "loop"}) \/ pc \in {"loop", "backoff", "final"})
          => outputs' = outputs]_vars

\* C17 witness: the source renamed failed_ after the last attempt failed as
\* incomplete
C17_Witness ==
    /\ last_op = "returned" /\ ~stop /\ rename_failed
    /\ src # "input"
    /\ StateOf(disk) = "permanent_failed"
    /\ Get(disk, "last_error", None) = "Incomplete transcription"
    /\ outputs = NoOutputs

\* C20: a failed attempt persists failed_attempt with the error text, the
\* sorted segments of the map and the last_end_sec read off them, keeps the
\* attempts count, and leaves that last_end_sec to the next resume decision
C20_FailedAttemptRecord ==
    /\ [][(pc = "session" /\ pc' \in {"backoff", "loop"})
          => /\ StateOf(disk') = "failed_attempt"
             /\ disk'.last_error
                  \in {"RequestException", "AttributeError", "Incomplete transcription"}
             /\ disk'.segments = SortedSegs(DictValues(segments_map))
             /\ disk'.last_end_sec
                  = (IF disk'.segments = <<>> THEN NoneSec
                     ELSE disk'.segments[Len(disk'.segments)].end)
             /\ disk'.attempts = disk.attempts
             /\ disk'.attempts = attempt
             /\ last_end_sec' = disk'.last_end_sec]_vars
    /\ []((pc \in {"backoff", "loop"} /\ StateOf(disk) = "failed_attempt")
            => last_end_sec = disk.last_end_sec)

\* C20 witness: a failed attempt whose segments were not all in the last
\* snapshot, waiting for its retry
C20_Witness ==
    /\ pc = "backoff"
    /\ StateOf(disk) = "failed_attempt"
    /\ disk.last_error = "RequestException"
    /\ Len(disk.segments) >= 2
    /\ last_end_sec = disk.last_end_sec /\ last_end_sec # NoneSec


\* C21: no payload aborts the attempt because of its content: whatever an
\* event holds, the session goes on to the next event and no failure is
\* persisted
C21_PayloadNeverAborts ==
    [][(SessionEvent /\ ~stop)
       => /\ pc' = "session"
          /\ n_events' = n_events + 1
          /\ StateOf(disk') = "in_progress"]_vars

\* C22: a resume-chunk cut that fails is handled like any failed attempt:
\* failed_attempt is persisted and the loop goes on to the backoff or to its
\* end
C22_CutFailureFailsAttempt ==
    /\ [][(pc = "loop" /\ last_op' = "cut_failed")
          => /\ StateOf(disk') = "failed_attempt"
             /\ pc' \in {"backoff", "loop"}]_vars
    /\ [](last_op = "cut_failed" => StateOf(disk) = "failed_attempt")

\* C23: an interrupted checkpoint whose source exists survives the start-up
\* cleanup; the next call on the same unchanged file rebuilds the map from
\* its segments, takes over its last_end_sec, and then runs an attempt,
\* which resumes from that last_end_sec when the resume conditions hold
C23_ResumeAfterInterrupt ==
    /\ [][(Restart /\ StateOf(disk) = "interrupted" /\ src = "input") => disk' = disk]_vars
    /\ [][(Start /\ StateOf(disk) = "interrupted" /\ disk.file_signature = sig)
          => /\ disk' = disk
             /\ segments_map' = RebuildMap(disk.segments)
             /\ last_end_sec' = disk.last_end_sec
             /\ attempt' < MaxRetries]_vars
    /\ [][(pc = "loop" /\ StateOf(disk) = "interrupted" /\ ~stop /\ pc' # "loop"
           /\ ~Restart)
          => /\ StateOf(disk') = "in_progress"
             /\ pc' = "session"
                  => (IF ResumeMode(resume_enabled, audio_duration, disk.last_end_sec)
                      THEN /\ tmp_path' = "chunk"
                           /\ drop_ends_leq_sec' = disk.last_end_sec
                           /\ resume_offset_sec' = ResumeOffset(disk.last_end_sec)
                      ELSE tmp_path' = None)]_vars

\* C24: with the stop signal set, an event or the end of the stream makes
\* the session raise ShutdownRequested: the call ends interrupted, and
\* outputs are only ever written with the stop signal not set
C24_StopNeverReturns ==
    /\ [][outputs' # outputs => (~stop /\ pc = "session" /\ pc' = "rename")]_vars
    /\ [][(pc = "session" /\ stop /\ pc' = "rename") => FALSE]_vars
    /\ [][(pc = "session" /\ stop /\ (SessionEvent \/ StreamEnd))
          => last_op' \in {"shutdown", "shutdown_unsaved"}]_vars

\* C24 witness: the stop signal came after the last event and before the end
\* of the stream, and the call ended interrupted with the whole transcription
\* in the checkpoint and no output
C24_Witness ==
    /\ stop /\ pc = "idle"
    /\ last_op \in {"shutdown", "shutdown_unsaved"}
    /\ StateOf(disk) = "interrupted"
    /\ Len(disk.segments) = 3
    /\ MaxEnd(disk.segments) = Duration
    /\ outputs = NoOutputs /\ src = "input"

\* C33: when an attempt has ended, in success, failure or shutdown, and
\* when the loop is about to start the next attempt, no resume chunk is left
\* at a resume chunk path
C33_ChunkRemoved ==
    (\/ pc = "loop"
     \/ pc = "idle" /\ last_op \in {"success", "returned", "shutdown", "shutdown_unsaved",
                                    "cut_failed"})
       => ~chunk

\* C34: every resume chunk is cut from the original input file
C34_CutFromInput ==
    [][(pc = "loop" /\ tmp_path' = "chunk") => CutSource = "input"]_vars

\* C38: whenever the loop is about to start an attempt, the file the attempt
\* uploads or cuts from exists
C38_AttemptSourceExists ==
    (pc = "loop" /\ attempt < MaxRetries /\ ~stop) => SourceExists(use_path)

\* C39: an input whose outputs have been written is never marked
\* permanent_failed and never renamed failed_
C39_NoFailureAfterOutputs ==
    outputs # NoOutputs => (src # "failed" /\ StateOf(disk) # "permanent_failed")

\* the attempts a checkpoint file records
Attempts(d) == Get(LoadOrEmpty(d), "attempts", 0)

\* C36: every session is started with the attempts counter of the
\* checkpoint raised by one and at most max_retries; while the source keeps
\* its name and signature and nobody else damages the checkpoint file, the
\* counter never decreases, in a call or across restarts
C36_AttemptsBoundSessions ==
    /\ [][(pc = "loop" /\ pc' = "session")
          => /\ Attempts(disk') = Attempts(disk) + 1
             /\ Attempts(disk') <= MaxRetries]_vars
    /\ [][(/\ Get(LoadOrEmpty(disk), "file_signature", NoneSec) = sig
           /\ sig' = sig /\ src' = "input" /\ ~TruncateCheckpoint)
          => Attempts(disk') >= Attempts(disk)]_vars

\* C36 witness: the third session of a file was started after a restart
C36_Witness ==
    /\ pc = "session" /\ restarts = 1
    /\ Attempts(disk) = MaxRetries /\ attempts_before = MaxRetries - 1
    /\ sig = 0 /\ src = "input"

\* the segment keys of a checkpoint file
CheckpointKeys(d) ==
    LET segs == Get(LoadOrEmpty(d), "segments", <<>>)
    IN  {seg_key(segs[i].start, segs[i].end, segs[i].text) : i \in 1..Len(segs)}

\* C37: inside a call the keys of the map never shrink, and every
\* checkpoint written over one with the signature of the source holds every
\* segment key of the one it replaces
C37_ProgressNeverLost ==
    /\ [][(pc # "idle" /\ pc' # "idle")
          => DictKeys(segments_map) \subseteq DictKeys(segments_map')]_vars
    /\ [][(disk' # disk /\ disk' # NoFile /\ disk' # Corrupt
           /\ Get(LoadOrEmpty(disk), "file_signature", NoneSec) = sig)
          => CheckpointKeys(disk) \subseteq CheckpointKeys(disk')]_vars

\* C37 witness: after a restart, a snapshot of a resumed session replaced
\* the interrupted checkpoint, and holds its two segments and a third
C37_Witness ==
    /\ pc = "session" /\ restarts = 1 /\ n_events >= 1
    /\ tmp_path = "chunk"
    /\ StateOf(disk) = "in_progress"
    /\ Len(disk.segments) = 3
    /\ Len(segments_map) = 3

----------------------------------------------------------------------------
(* utils.py, atomic_write_json taken apart into its system calls, with the *)
(* process killed between any two of them (SpecWrite)                      *)

CpPath == "cp.json"
Files == {"cp.json", "cp.json.tmp"}

\* json.dumps(data, ...) followed by "\n", as the sequence of pieces that
\* reach the file one after another
Payload(data) == <<"{", "state:", data, "}", "\n">>

\* a file holding the pieces bs
File(bs) == [bytes |-> bs]

ParseFailed == [none |-> TRUE]

\* json.load of a file's content: the document, or nothing when there is no
\* file or the content does not parse (checkpoint.py 18-25)
JsonLoad(content) ==
    IF content = NoFile THEN ParseFailed
    ELSE IF \E d \in 1..MaxDocs : content.bytes = Payload(d)
                                  \/ content.bytes = SubSeq(Payload(d), 1, 4)
    THEN [doc |-> content.bytes[3]]
    ELSE ParseFailed

\* the temp file written in place of a sibling
TmpPathInPlace(path) == path

\* utils.py 63: path.with_suffix(path.suffix + ".tmp")
TmpPath(path) == "cp.json.tmp"

\* utils.py 62-66: the call begins; tmp.open("w") creates or truncates
WriteOpen ==
    /\ w_pc = "ready"
    /\ \E d \in 1..MaxDocs :
        /\ w_data' = d
        /\ w_path' = CpPath
        /\ w_old' = w_fs[CpPath]
        /\ w_fs' = [w_fs EXCEPT ![TmpPath(CpPath)] = File(<<>>)]
    /\ w_pc' = "writing"
    /\ UNCHANGED <<drv_vars, m_vars, r_vars,
                   s_vars, b_vars, fn_vars>>

\* utils.py 67-68: the next piece of the payload reaches the file
WriteData ==
    /\ w_pc = "writing"
    /\ Len(w_fs[TmpPath(w_path)].bytes) < Len(Payload(w_data))
    /\ w_fs' = [w_fs EXCEPT ![TmpPath(w_path)] =
                    File(Append(@.bytes, Payload(w_data)[Len(@.bytes) + 1]))]
    /\ UNCHANGED <<w_pc, w_path, w_data, w_old, drv_vars, m_vars, r_vars,
                   s_vars, b_vars, fn_vars>>

\* utils.py 69-70: flush and fsync once everything is written, then close
WriteSync ==
    /\ w_pc = "writing"
    /\ w_fs[TmpPath(w_path)] = File(Payload(w_data))
    /\ w_pc' = "synced"
    /\ UNCHANGED <<w_path, w_data, w_old, w_fs, drv_vars, m_vars, r_vars,
                   s_vars, b_vars, fn_vars>>

\* utils.py 71: os.replace(tmp, path)
WriteReplace ==
    /\ w_pc = "synced"
    /\ w_fs' = IF TmpPath(w_path) = w_path THEN w_fs
               ELSE [w_fs EXCEPT ![w_path] = w_fs[TmpPath(w_path)],
                                 ![TmpPath(w_path)] = NoFile]
    /\ w_pc' = "ready"
    /\ UNCHANGED <<w_path, w_data, w_old, drv_vars, m_vars, r_vars,
                   s_vars, b_vars, fn_vars>>

\* the process is killed inside the call; the files stay as they are
WriteCrash ==
    /\ w_pc \in {"writing", "synced"}
    /\ w_pc' = "ready"
    /\ UNCHANGED <<w_path, w_data, w_old, w_fs, drv_vars, m_vars, r_vars,
                   s_vars, b_vars, fn_vars>>

WriteInit ==
    /\ DrvInit /\ rename_failed = TRUE /\ resume_enabled = TRUE
    /\ FnOff
    /\ ScanOff /\ BackoffOff
    /\ w_pc = "ready" /\ w_path = CpPath /\ w_data = 1 /\ w_old = NoFile
    /\ w_fs = [f \in Files |-> NoFile]
    /\ m_pc = "off" /\ m_left_a = <<>> /\ m_left_b = <<>> /\ m_map_a = <<>>
    /\ m_map_b = <<>> /\ m_offset = 0 /\ m_drop = NoneSec
    /\ r_pc = "off" /\ r_run = <<>> /\ r_k = 0 /\ r_todo = <<>> /\ r_one = <<>>
    /\ r_res = <<>> /\ r_dup = FALSE

WriteNext == WriteOpen \/ WriteData \/ WriteSync \/ WriteReplace \/ WriteCrash

SpecWrite == WriteInit /\ [][WriteNext]_vars

\* C1: whenever the process may be killed during a save, the file at the
\* checkpoint path is what it was when the call began or the complete new
\* document; a reader never finds a partial or an empty document there
C1_AtomicSave ==
    /\ w_fs[CpPath] \in {w_old, File(Payload(w_data))}
    /\ w_fs[CpPath] # NoFile => JsonLoad(w_fs[CpPath]) # ParseFailed

\* C1 witness: the process was killed with the new document partly written,
\* and the reader still finds the complete previous document
C1_Witness ==
    /\ w_pc = "ready"
    /\ w_fs[TmpPath(CpPath)] # NoFile
    /\ Len(w_fs[TmpPath(CpPath)].bytes) \in 1..3
    /\ w_fs[CpPath] = w_old
    /\ w_old # NoFile
    /\ JsonLoad(w_fs[CpPath]) # [doc |-> w_data]

----------------------------------------------------------------------------
(* One session fed the same events in two orders (SpecMerge) *)

\* dict equality: the same keys with the same values, whatever the order
DictEq(d, e) ==
    /\ DictKeys(d) = DictKeys(e)
    /\ \A k \in DictKeys(d) : DictGet(d, k) = DictGet(e, k)

\* the "segments" of the events; the second differs from the first below
\* the millisecond
MergeEvents ==
    { <<Seg(1000, 2000, "a")>>,
      <<[start |-> Ms(1000) + 1, end |-> Ms(2000), text |-> "a"]>>,
      <<Seg(2000, 2050, "b"), BadSeg, Seg(2000, 2051, "d")>>,
      <<Seg(2000, 57000, "c"), Seg(1000, 2000, " b ")>> }

SeqsUpTo(S, n) == UNION {[1..m -> S] : m \in 1..n}

IsPermutation(a, b) ==
    /\ Len(a) = Len(b)
    /\ \E f \in [1..Len(a) -> 1..Len(a)] :
        /\ \A i, j \in 1..Len(a) : i # j => f[i] # f[j]
        /\ \A i \in 1..Len(a) : b[i] = a[f[i]]

MergeInit ==
    /\ DrvInit /\ rename_failed = TRUE /\ resume_enabled = TRUE
    /\ FnOff
    /\ ScanOff /\ BackoffOff
    /\ w_pc = "off" /\ w_path = None /\ w_data = 0 /\ w_old = NoFile
    /\ w_fs = [f \in {} |-> NoFile]
    /\ r_pc = "off" /\ r_run = <<>> /\ r_k = 0 /\ r_todo = <<>> /\ r_one = <<>>
    /\ r_res = <<>> /\ r_dup = FALSE
    /\ m_pc = "run"
    /\ m_left_a \in SeqsUpTo(MergeEvents, MaxMergeEvents)
    /\ m_left_b \in {b \in SeqsUpTo(MergeEvents, MaxMergeEvents) : IsPermutation(m_left_a, b)}
    /\ \E last_end \in {NoneSec, Ms(5000)} :
        /\ m_drop = last_end
        /\ m_offset = IF last_end = NoneSec THEN 0 ELSE ResumeOffset(last_end)
        /\ m_map_a = IF last_end = NoneSec THEN <<>>
                     ELSE RebuildMap(<<Seg(0, 4000, "a"), Seg(4000, 5000, "b")>>)
    /\ m_map_b = m_map_a

\* worker.py 239-264 in the first session
MergeStepA ==
    /\ m_pc = "run" /\ m_left_a # <<>>
    /\ m_map_a' = MergeSegments(m_map_a, Head(m_left_a), m_offset, m_drop)
    /\ m_left_a' = Tail(m_left_a)
    /\ UNCHANGED <<m_pc, m_left_b, m_map_b, m_offset, m_drop, drv_vars, w_vars, r_vars,
                   s_vars, b_vars, fn_vars>>

\* worker.py 239-264 in the second session
MergeStepB ==
    /\ m_pc = "run" /\ m_left_b # <<>>
    /\ m_map_b' = MergeSegments(m_map_b, Head(m_left_b), m_offset, m_drop)
    /\ m_left_b' = Tail(m_left_b)
    /\ UNCHANGED <<m_pc, m_left_a, m_map_a, m_offset, m_drop, drv_vars, w_vars, r_vars,
                   s_vars, b_vars, fn_vars>>

MergeNext == MergeStepA \/ MergeStepB

SpecMerge == MergeInit /\ [][MergeNext]_vars

MergeDone == m_pc = "run" /\ m_left_a = <<>> /\ m_left_b = <<>>

\* C27: an event's segments are shifted by resume_offset_sec when that is
\* positive; a shifted segment is dropped exactly when a threshold is set and
\* its end is at most 0.05 s beyond it; every other segment is in the map
\* under its key afterwards; nothing else enters the map and nothing leaves
\* it, so with a threshold set every key that is new ends after the threshold
C27_ShiftAndOverlapFilter ==
    [][MergeStepA =>
        LET segs == Head(m_left_a)
            good == {i \in 1..Len(segs) : segs[i] # BadSeg}
            shift == IF m_offset > 0 THEN m_offset ELSE 0
            Shifted(s) == [start |-> s.start + shift, end |-> s.end + shift,
                           text |-> Strip(s.text)]
            KeyOf(s) == seg_key(Shifted(s).start, Shifted(s).end, Shifted(s).text)
            Dropped(s) == m_drop # NoneSec /\ Shifted(s).end <= m_drop + Ms(DropEpsMs)
            kept == {i \in good : ~Dropped(segs[i])}
        IN  /\ \A i \in kept :
                  /\ KeyOf(segs[i]) \in DictKeys(m_map_a')
                  /\ \E j \in kept : /\ KeyOf(segs[j]) = KeyOf(segs[i])
                                      /\ DictGet(m_map_a', KeyOf(segs[i])) = Shifted(segs[j])
            /\ DictKeys(m_map_a') = DictKeys(m_map_a) \cup {KeyOf(segs[i]) : i \in kept}
            /\ \A k \in DictKeys(m_map_a) \ {KeyOf(segs[i]) : i \in kept} :
                  DictGet(m_map_a', k) = DictGet(m_map_a, k)
            /\ m_drop # NoneSec
                  => \A i \in kept : DictGet(m_map_a', KeyOf(segs[i])).end > m_drop]_vars

\* C27 witness: a resume session is through; the segment that ends 0.05 s
\* after the threshold is not in the map, the one that ends 0.051 s after it
\* is, shifted by the offset
C27_Witness ==
    /\ m_pc = "run" /\ m_left_a = <<>>
    /\ m_drop = Ms(5000) /\ m_offset = Ms(3000)
    /\ \E i \in 1..Len(m_map_a) :
          m_map_a[i].v = [start |-> Ms(5000), end |-> Ms(5051), text |-> "d"]
    /\ \A i \in 1..Len(m_map_a) : m_map_a[i].v.end # Ms(5050)

\* C9 as claimed: two orders of the same events leave identical maps, the
\* same keys and under each key the same stored start, end and text
C9_PermutationInvariant == MergeDone => DictEq(m_map_a, m_map_b)

\* C9 as amended: two orders of the same events leave maps with the same
\* keys and, under each key, the same text and the same start and end once
\* rounded to the millisecond
C9_SameKeysRoundedValues ==
    MergeDone =>
        /\ DictKeys(m_map_a) = DictKeys(m_map_b)
        /\ \A k \in DictKeys(m_map_a) :
            LET a == DictGet(m_map_a, k)
                b == DictGet(m_map_b, k)
            IN  /\ a.text = b.text
                /\ Round3(a.start) = Round3(b.start)
                /\ Round3(a.end) = Round3(b.end)

\* C9 witness: both orders are through, they differ, something was stored
\* and the stored values differ below the millisecond
C9_Witness ==
    /\ MergeDone
    /\ Len(m_map_a) >= 2
    /\ DictKeys(m_map_a) = DictKeys(m_map_b)
    /\ ~DictEq(m_map_a, m_map_b)

----------------------------------------------------------------------------
(* A one-shot run against the same run cut and resumed (SpecResume) *)

\* what the one-shot runs are drawn from: segments in time order
Timeline ==
    <<Seg(0, 2000, "a"), Seg(2000, 5000, " b "), Seg(5000, 5040, "c"),
      Seg(5040, 7000, "d"), Seg(7000, 60000, "e")>>

RECURSIVE SubRuns(_)
SubRuns(ts) ==
    IF ts = <<>> THEN {<<>>}
    ELSE LET rest == SubRuns(Tail(ts))
         IN  rest \cup {<<Head(ts)>> \o r : r \in rest}

\* what the server reports of the resume chunk: the segments of the one-shot
\* run from the offset on, counted from the offset, and, with dup, the rest
\* of a segment the cut goes through
ChunkReport(run, offset, dup) ==
    RelSegs(SelectSeq(run, LAMBDA t : dup \/ t.start >= offset), offset)

ResumeInit ==
    /\ DrvInit /\ rename_failed = TRUE /\ resume_enabled = TRUE
    /\ FnOff
    /\ ScanOff /\ BackoffOff
    /\ w_pc = "off" /\ w_path = None /\ w_data = 0 /\ w_old = NoFile
    /\ w_fs = [f \in {} |-> NoFile]
    /\ m_pc = "off" /\ m_left_a = <<>> /\ m_left_b = <<>> /\ m_map_a = <<>>
    /\ m_map_b = <<>> /\ m_offset = 0 /\ m_drop = NoneSec
    /\ r_pc = "one"
    /\ r_run \in SubRuns(Timeline) \ {<<>>}
    /\ r_k \in 1..Len(r_run)
    /\ r_dup \in BOOLEAN
    /\ r_todo = r_run
    /\ r_one = <<>> /\ r_res = <<>>

\* the last_end the driver derives from the map (worker.py 519-529)
ResumeLastEnd == LastEnd(SortedSegs(DictValues(r_res)))

\* worker.py 239-264 with offset 0 and no filter: the one-shot session
OneShotStep ==
    /\ r_pc = "one"
    /\ IF r_todo # <<>>
       THEN /\ r_one' = MergeSegments(r_one, <<Head(r_todo)>>, 0, NoneSec)
            /\ r_todo' = Tail(r_todo)
            /\ UNCHANGED r_pc
       ELSE /\ r_pc' = "first"
            /\ r_todo' = SubSeq(r_run, 1, r_k)
            /\ UNCHANGED r_one
    /\ UNCHANGED <<r_run, r_k, r_res, r_dup, drv_vars, w_vars, m_vars,
                   s_vars, b_vars, fn_vars>>

\* the session that is cut after s_k, then worker.py 403-404
FirstStep ==
    /\ r_pc = "first"
    /\ IF r_todo # <<>>
       THEN /\ r_res' = MergeSegments(r_res, <<Head(r_todo)>>, 0, NoneSec)
            /\ r_todo' = Tail(r_todo)
            /\ UNCHANGED r_pc
       ELSE /\ r_pc' = "chunk"
            /\ r_todo' = ChunkReport(r_run, ResumeOffset(ResumeLastEnd), r_dup)
            /\ UNCHANGED r_res
    /\ UNCHANGED <<r_run, r_k, r_one, r_dup, drv_vars, w_vars, m_vars,
                   s_vars, b_vars, fn_vars>>

\* worker.py 239-264 in the resumed session
ChunkStep ==
    /\ r_pc = "chunk"
    /\ IF r_todo # <<>>
       THEN /\ r_res' = MergeSegments(r_res, <<Head(r_todo)>>,
                                      ResumeOffset(r_run[r_k].end), r_run[r_k].end)
            /\ r_todo' = Tail(r_todo)
            /\ UNCHANGED r_pc
       ELSE /\ r_pc' = "done"
            /\ UNCHANGED <<r_todo, r_res>>
    /\ UNCHANGED <<r_run, r_k, r_one, r_dup, drv_vars, w_vars, m_vars,
                   s_vars, b_vars, fn_vars>>

ResumeNext == OneShotStep \/ FirstStep \/ ChunkStep

SpecResume == ResumeInit /\ [][ResumeNext]_vars

\* C10 as claimed: the run cut after s_k and resumed ends with the map of
\* the one-shot run
C10_ResumeEquivalence == r_pc = "done" => DictEq(r_res, r_one)

\* every segment after s_k ends more than 0.05 s after s_k
NoShortTail ==
    \A j \in (r_k + 1)..Len(r_run) : r_run[j].end > r_run[r_k].end + Ms(DropEpsMs)

\* C10 as amended: for a run in time order in which every segment after s_k
\* ends more than 0.05 s after s_k, the run cut after s_k and resumed ends
\* with the map of the one-shot run
C10_ResumeEquivalenceLongTail ==
    (r_pc = "done" /\ NoShortTail) => DictEq(r_res, r_one)

\* C10 witness: a run cut in its middle, resumed at an offset > 0 with the
\* overlap reported again, that ends with the one-shot map
C10_Witness ==
    /\ r_pc = "done" /\ NoShortTail
    /\ r_k < Len(r_run) /\ r_k >= 2
    /\ ResumeOffset(r_run[r_k].end) > 0
    /\ r_dup
    /\ Len(ChunkReport(r_run, ResumeOffset(r_run[r_k].end), r_dup))
         > Len(r_run) - r_k
    /\ DictEq(r_res, r_one)

----------------------------------------------------------------------------
(* main.py's loop over input_dir: list_candidate_files, process_one_file's *)
(* renames (SpecScan).  A file name is the sequence of its pieces, the     *)
(* last one its suffix: "failed_a.mp3" is <<"failed_", "a", ".mp3">>       *)

\* Config.supported_formats, as far as the model's names go
SupportedFormats == {".mp3", ".wav"}

\* str.lower() on the pieces of the model's names
Lower(t) ==
    CASE t = ".MP3" -> ".mp3"
      [] t = "B"    -> "b"
      [] OTHER      -> t

\* Path.suffix
Suffix(name) == name[Len(name)]

\* str.startswith on a name
StartsWith(name, prefix) == Head(name) = prefix

\* the order of the lower-cased pieces as strings
PieceRank(t) ==
    CASE t = ".mp3"       -> 0
      [] t = ".txt"       -> 1
      [] t = ".wav"       -> 2
      [] t = "a"          -> 3
      [] t = "b"          -> 4
      [] t = "failed_"    -> 5
      [] t = "processed_" -> 6
      [] t = "ts_"        -> 7

\* key=lambda x: x.name.lower()
NameKey(name) == [i \in 1..Len(name) |-> PieceRank(Lower(name[i]))]

RECURSIVE LexLess(_, _)
LexLess(a, b) ==
    IF a = <<>> THEN b # <<>>
    ELSE IF b = <<>> THEN FALSE
    ELSE IF Head(a) # Head(b) THEN Head(a) < Head(b)
    ELSE LexLess(Tail(a), Tail(b))

\* sorted(out, key=...)
RECURSIVE SortByName(_)
SortByName(S) ==
    IF S = {} THEN <<>>
    ELSE LET m == CHOOSE x \in S : \A y \in S \ {x} : ~LexLess(NameKey(y), NameKey(x))
         IN  <<m>> \o SortByName(S \ {m})

\* worker.py 44-54
list_candidate_files(dir) ==
    SortByName({e.name : e \in {x \in dir : /\ x.kind = "file"
                                            /\ ~StartsWith(x.name, "processed_")
                                            /\ Lower(Suffix(x.name)) \in SupportedFormats}})

Exists(dir, name) == \E e \in dir : e.name = name

\* os.replace(input_path, target)
Replace(dir, name, target) ==
    {e \in dir : e.name # name /\ e.name # target} \cup {[name |-> target, kind |-> "file"]}

\* worker.py 56-63: the name rename_processed moves input_path to; "ts_"
\* stands for the timestamp and its underscore
ProcessedTarget(dir, name) ==
    IF Exists(dir, <<"processed_">> \o name)
    THEN <<"processed_", "ts_">> \o name
    ELSE <<"processed_">> \o name

\* worker.py 65-72
FailedTarget(dir, name) ==
    IF Exists(dir, <<"failed_">> \o name)
    THEN <<"failed_", "ts_">> \o name
    ELSE <<"failed_">> \o name

\* Path.stem: the name without its last suffix
Stem(name) == SubSeq(name, 1, Len(name) - 1)

\* worker.py 82-84: the two paths save_outputs writes for input_path
OutputPaths(name) ==
    {Stem(name) \o <<".txt">>, Stem(name) \o <<"_timestamped", ".txt">>}

\* worker.py 74-108: both files are written over whatever is at their paths
save_outputs(out, name) ==
    {o \in out : o.path \notin OutputPaths(name)}
        \cup {[path |-> p, by |-> name] : p \in OutputPaths(name)}

\* what input_dir may hold when the worker starts; a directory holds one
\* entry of a name
InitialEntries ==
    { [name |-> <<"a", ".mp3">>, kind |-> "file"],
      [name |-> <<"B", ".MP3">>, kind |-> "file"],
      [name |-> <<"a", ".txt">>, kind |-> "file"],
      [name |-> <<"a", ".wav">>, kind |-> "dir"],
      [name |-> <<"a", ".wav">>, kind |-> "file"],
      [name |-> <<"processed_", "a", ".mp3">>, kind |-> "file"],
      [name |-> <<"failed_", "a", ".mp3">>, kind |-> "file"] }

ScanInit ==
    /\ DrvInit /\ rename_failed \in BOOLEAN /\ resume_enabled = TRUE
    /\ BackoffOff /\ FnOff
    /\ w_pc = "off" /\ w_path = None /\ w_data = 0 /\ w_old = NoFile
    /\ w_fs = [f \in {} |-> NoFile]
    /\ m_pc = "off" /\ m_left_a = <<>> /\ m_left_b = <<>> /\ m_map_a = <<>>
    /\ m_map_b = <<>> /\ m_offset = 0 /\ m_drop = NoneSec
    /\ r_pc = "off" /\ r_run = <<>> /\ r_k = 0 /\ r_todo = <<>> /\ r_one = <<>>
    /\ r_res = <<>> /\ r_dup = FALSE
    /\ s_pc = "scan"
    /\ s_dir \in SUBSET InitialEntries
    /\ \A x, y \in s_dir : x.name = y.name => x = y
    /\ s_scan = <<>> /\ s_todo = <<>> /\ s_renamed = {} /\ s_out = {}

\* main.py 50-55: the scan; with no file main sleeps and scans again
Scan ==
    /\ s_pc = "scan"
    /\ s_scan' = list_candidate_files(s_dir)
    /\ s_todo' = s_scan'
    /\ s_pc' = IF s_scan' = <<>> THEN "scan" ELSE "files"
    /\ UNCHANGED <<s_dir, s_renamed, s_out, drv_vars, w_vars, m_vars, r_vars, b_vars, fn_vars>>

\* main.py 56-60: the for loop goes to its next file, or ends
NextFile ==
    /\ s_todo' = Tail(s_todo)
    /\ s_pc' = IF Tail(s_todo) = <<>> THEN "scan" ELSE "files"

\* main.py 59 with worker.py 477-478: process_one_file succeeds on the file,
\* writes its two output files and renames it
ProcessSucceeded ==
    /\ s_pc = "files"
    /\ Len(Head(s_todo)) < MaxNameLen
    /\ LET target == ProcessedTarget(s_dir, Head(s_todo))
       IN  /\ s_dir' = Replace(s_dir, Head(s_todo), target)
           /\ s_renamed' = s_renamed \cup {target}
    /\ s_out' = save_outputs(s_out, Head(s_todo))
    /\ NextFile
    /\ UNCHANGED <<s_scan, drv_vars, w_vars, m_vars, r_vars, b_vars, fn_vars>>

\* main.py 59 with worker.py 567-571: process_one_file fails for good
ProcessFailed ==
    /\ s_pc = "files"
    /\ Len(Head(s_todo)) < MaxNameLen
    /\ IF rename_failed /\ Exists(s_dir, Head(s_todo))
       THEN LET target == FailedTarget(s_dir, Head(s_todo))
            IN  /\ s_dir' = Replace(s_dir, Head(s_todo), target)
                /\ s_renamed' = s_renamed \cup {target}
       ELSE UNCHANGED <<s_dir, s_renamed>>
    /\ NextFile
    /\ UNCHANGED <<s_scan, s_out, drv_vars, w_vars, m_vars, r_vars, b_vars, fn_vars>>

\* main.py 59-65: process_one_file is left by an exception, which main logs
\* before it scans again
ProcessRaised ==
    /\ s_pc = "files"
    /\ s_todo' = <<>>
    /\ s_pc' = "scan"
    /\ UNCHANGED <<s_dir, s_scan, s_renamed, s_out, drv_vars, w_vars, m_vars, r_vars, b_vars, fn_vars>>

ScanNext == Scan \/ ProcessSucceeded \/ ProcessFailed \/ ProcessRaised

SpecScan == ScanInit /\ [][ScanNext]_vars

\* the regular files with a supported suffix whose name starts with neither
\* processed_ nor failed_
Unprocessed(dir) ==
    {e.name : e \in {x \in dir : /\ x.kind = "file"
                                 /\ Lower(Suffix(x.name)) \in SupportedFormats
                                 /\ ~StartsWith(x.name, "processed_")
                                 /\ ~StartsWith(x.name, "failed_")}}

\* C18: the scan returns exactly the regular files of input_dir with a
\* supported lower-cased suffix whose name starts with neither processed_
\* nor failed_, so that no name given by rename_processed or rename_failed
\* is ever scanned
C18_ScanSkipsRenamed ==
    /\ [][Scan => {s_scan'[i] : i \in 1..Len(s_scan')} = Unprocessed(s_dir)]_vars
    /\ [](\A i \in 1..Len(s_todo) : s_todo[i] \notin s_renamed)

\* C40: two distinct input files never share an output path: save_outputs
\* for one input never writes over an output file written for another input
C40_OutputsNeverShared ==
    [][\A o \in s_out : \A n \in s_out' : o.path = n.path => o.by = n.by]_vars

----------------------------------------------------------------------------
(* worker.py 526-542 and 378-381: from the failure record of attempt n to *)
(* the start of attempt n + 1, against the clock (SpecBackoff)            *)

RECURSIVE Pow2(_)
Pow2(n) == IF n = 0 THEN 1 ELSE 2 * Pow2(n - 1)

\* the delay that does not grow with the attempt
BackoffDelayFlat(n) == RetryDelayBase

\* worker.py 538: retry_delay_base * (2 ** (attempt - 1))
BackoffDelay(n) == RetryDelayBase * Pow2(n - 1)

\* the seconds that may pass between two reads of the clock beyond what the
\* code asks for
Drift == 0..MaxDrift

BackoffInit ==
    /\ DrvInit /\ rename_failed = TRUE /\ resume_enabled = TRUE
    /\ FnOff
    /\ ScanOff
    /\ w_pc = "off" /\ w_path = None /\ w_data = 0 /\ w_old = NoFile
    /\ w_fs = [f \in {} |-> NoFile]
    /\ m_pc = "off" /\ m_left_a = <<>> /\ m_left_b = <<>> /\ m_map_a = <<>>
    /\ m_map_b = <<>> /\ m_offset = 0 /\ m_drop = NoneSec
    /\ r_pc = "off" /\ r_run = <<>> /\ r_k = 0 /\ r_todo = <<>> /\ r_one = <<>>
    /\ r_res = <<>> /\ r_dup = FALSE
    /\ b_pc = "persisted"
    /\ b_attempt \in 1..MaxRetries
    /\ b_now = 0 /\ b_end_wait = 0
    /\ b_stop \in BOOLEAN
    /\ b_started_at = NoneSec

\* worker.py 535-540: the break after the last attempt, or delay and end_wait
BackoffBegin ==
    /\ b_pc = "persisted"
    /\ \E d \in Drift :
        /\ b_now' = b_now + d
        /\ IF b_attempt >= MaxRetries
           THEN /\ b_pc' = "exit"
                /\ UNCHANGED b_end_wait
           ELSE /\ b_end_wait' = b_now' + BackoffDelay(b_attempt)
                /\ b_pc' = "wait"
    /\ UNCHANGED <<b_attempt, b_stop, b_started_at, drv_vars, w_vars, m_vars, r_vars,
                   s_vars, fn_vars>>

\* worker.py 541-542: the test passes and time.sleep(1) returns
BackoffSleep ==
    /\ b_pc = "wait"
    /\ b_now < b_end_wait /\ ~b_stop
    /\ \E d \in Drift : b_now' = b_now + 1 + d
    /\ UNCHANGED <<b_pc, b_attempt, b_end_wait, b_stop, b_started_at, drv_vars, w_vars,
                   m_vars, r_vars, s_vars, fn_vars>>

\* worker.py 541 and 544-556: the test fails, the finally block runs
BackoffWaitEnd ==
    /\ b_pc = "wait"
    /\ ~(b_now < b_end_wait /\ ~b_stop)
    /\ b_pc' = "looptest"
    /\ UNCHANGED <<b_attempt, b_now, b_end_wait, b_stop, b_started_at, drv_vars, w_vars,
                   m_vars, r_vars, s_vars, fn_vars>>

\* worker.py 378-381: the loop test, and the start of the next attempt
BackoffLoopTest ==
    /\ b_pc = "looptest"
    /\ IF b_attempt < MaxRetries /\ ~b_stop
       THEN \E d \in Drift :
              /\ b_now' = b_now + d
              /\ b_attempt' = b_attempt + 1
              /\ b_started_at' = b_now'
              /\ b_pc' = "attempt"
       ELSE /\ b_pc' = "exit"
            /\ UNCHANGED <<b_attempt, b_now, b_started_at>>
    /\ UNCHANGED <<b_end_wait, b_stop, drv_vars, w_vars, m_vars, r_vars, s_vars, fn_vars>>

\* main.py 21-23: the stop signal
BackoffSetStop ==
    /\ b_pc \in {"persisted", "wait", "looptest"}
    /\ ~b_stop
    /\ b_stop' = TRUE
    /\ UNCHANGED <<b_pc, b_attempt, b_now, b_end_wait, b_started_at, drv_vars, w_vars,
                   m_vars, r_vars, s_vars, fn_vars>>

BackoffNext ==
    \/ BackoffBegin
    \/ BackoffSleep
    \/ BackoffWaitEnd
    \/ BackoffLoopTest
    \/ BackoffSetStop

SpecBackoff == BackoffInit /\ [][BackoffNext]_vars

\* C19: the attempt after failed attempt n starts no sooner than
\* retry_delay_base * 2^(n-1) seconds after the failure was persisted (b_now
\* counts from there; the attempt that starts is n + 1)
C19_BackoffDelay ==
    b_pc = "attempt"
        => /\ ~b_stop
           /\ b_started_at >= RetryDelayBase * Pow2(b_attempt - 2)

\* C19 witness: the third attempt started after the second had failed, the
\* sleep loop having run to its end
C19_Witness ==
    /\ b_pc = "attempt" /\ b_attempt = 3 /\ ~b_stop
    /\ b_started_at >= 2 * RetryDelayBase
    /\ b_started_at >= b_end_wait

----------------------------------------------------------------------------
(* whisper_api.py, iter_sse_data: the reader of the event stream.  A line is
   the sequence of its characters; "data:" is written as one character, CR
   and LF are the two line-end characters and TAB the tabulator. *)

MaxLines == 3               \* lines of a response

\* str.rstrip("\r\n")
RECURSIVE RStripCrLf(_)
RStripCrLf(line) ==
    IF line # <<>> /\ line[Len(line)] \in {"CR", "LF"}
    THEN RStripCrLf(SubSeq(line, 1, Len(line) - 1))
    ELSE line

\* what str.lstrip() and str.strip() take for whitespace
IsSpace(c) == c \in {" ", "TAB", "CR", "LF"}

\* at most one leading whitespace character removed
LStripOne(cs) == IF cs # <<>> /\ IsSpace(Head(cs)) THEN Tail(cs) ELSE cs

\* str.lstrip()
RECURSIVE LStrip(_)
LStrip(cs) == IF cs # <<>> /\ IsSpace(Head(cs)) THEN LStrip(Tail(cs)) ELSE cs

\* line.startswith("data:")
StartsWithData(line) == line # <<>> /\ Head(line) = "data:"

\* line[len("data:"):].lstrip()
DataContent(line) == LStrip(Tail(line))

\* "\n".join(data_lines)
RECURSIVE JoinLf(_)
JoinLf(data_lines) ==
    IF data_lines = <<>> THEN <<>>
    ELSE IF Len(data_lines) = 1 THEN data_lines[1]
    ELSE data_lines[1] \o <<"LF">> \o JoinLf(Tail(data_lines))

\* the lines resp.iter_lines() may deliver
SseLines ==
    { <<>>,                                 \* blank
      <<"CR">>,                             \* blank once the line end is stripped
      <<"data:", "x">>,
      <<"data:", " ", "y", "CR">>,
      <<"data:", " ", " ", "z", " ">>,
      <<"data:">>,
      <<"id:", " ", "1">>,
      <<" ", "data:", "x">> }

SseInit ==
    /\ DrvInit /\ rename_failed = TRUE /\ resume_enabled = TRUE
    /\ ScanOff /\ BackoffOff /\ PartsOff
    /\ DeleteOff /\ TranscriptOff /\ SnapshotOff /\ OrphanOff /\ ProgressOff
    /\ e_pc = "read"
    /\ e_in \in {<<>>} \cup SeqsUpTo(SseLines, MaxLines)
    /\ e_rest = e_in
    /\ e_data_lines = <<>> /\ e_out = <<>>

not_e_vars == <<drv_vars, w_vars, m_vars, r_vars, s_vars, b_vars, d_vars, t_vars, p_vars,
               o_vars, g_vars>>

\* whisper_api.py 13-17: a blank line flushes what is buffered
SseBlank ==
    /\ e_pc = "read" /\ e_rest # <<>>
    /\ RStripCrLf(Head(e_rest)) = <<>>
    /\ IF e_data_lines # <<>>
       THEN /\ e_out' = Append(e_out, JoinLf(e_data_lines))
            /\ e_data_lines' = <<>>
       ELSE UNCHANGED <<e_out, e_data_lines>>
    /\ e_rest' = Tail(e_rest)
    /\ UNCHANGED <<e_pc, e_in, not_e_vars>>

\* whisper_api.py 18-19: a data: line is buffered
SseData ==
    /\ e_pc = "read" /\ e_rest # <<>>
    /\ LET line == RStripCrLf(Head(e_rest))
       IN  /\ line # <<>> /\ StartsWithData(line)
           /\ e_data_lines' = Append(e_data_lines, DataContent(line))
    /\ e_rest' = Tail(e_rest)
    /\ UNCHANGED <<e_pc, e_in, e_out, not_e_vars>>

\* a line that is not a data: line with the buffer emptied
SseOtherClears ==
    /\ e_pc = "read" /\ e_rest # <<>>
    /\ LET line == RStripCrLf(Head(e_rest))
       IN  line # <<>> /\ ~StartsWithData(line)
    /\ e_rest' = Tail(e_rest)
    /\ e_data_lines' = <<>>
    /\ UNCHANGED <<e_pc, e_in, e_out, not_e_vars>>

\* whisper_api.py 11-19: any other line falls through the loop body
SseOther ==
    /\ e_pc = "read" /\ e_rest # <<>>
    /\ LET line == RStripCrLf(Head(e_rest))
       IN  line # <<>> /\ ~StartsWithData(line)
    /\ e_rest' = Tail(e_rest)
    /\ UNCHANGED <<e_pc, e_in, e_data_lines, e_out, not_e_vars>>

\* whisper_api.py 20-21: the end of the input flushes what is buffered
SseEnd ==
    /\ e_pc = "read" /\ e_rest = <<>>
    /\ IF e_data_lines # <<>>
       THEN /\ e_out' = Append(e_out, JoinLf(e_data_lines))
            /\ e_data_lines' = <<>>
       ELSE UNCHANGED <<e_out, e_data_lines>>
    /\ e_pc' = "done"
    /\ UNCHANGED <<e_in, e_rest, not_e_vars>>

SseNext == SseBlank \/ SseData \/ SseOther \/ SseEnd

SpecSse == SseInit /\ [][SseNext]_vars

\* the lines of the input that are blank and those that are data: lines
BlankAt(i) == RStripCrLf(e_in[i]) = <<>>
DataAt(i) == StartsWithData(RStripCrLf(e_in[i]))

\* the data: lines no blank line separates from the data: line e
RunOf(e) ==
    {i \in 1..e : DataAt(i) /\ \A k \in (i + 1)..(e - 1) : ~BlankAt(k)}

\* the data: lines that end a maximal run: a blank line or the end of the
\* input comes before any further data: line
RunEnds ==
    {i \in 1..Len(e_in) :
        /\ DataAt(i)
        /\ \A j \in (i + 1)..Len(e_in) :
              DataAt(j) => \E k \in (i + 1)..(j - 1) : BlankAt(k)}

\* the contents of the lines of a run, in order, with LF between them
RECURSIVE RunText(_, _)
RunText(run, from) ==
    IF \A i \in run : i < from THEN <<>>
    ELSE LET i == CHOOSE i \in run : i >= from /\ \A j \in run : j >= from => i <= j
             rest == RunText(run, i + 1)
         IN  DataContent(RStripCrLf(e_in[i]))
               \o (IF \E j \in run : j > i THEN <<"LF">> \o rest ELSE <<>>)

\* C29: when the reader has ended, it has yielded exactly one payload for
\* every maximal run of data: lines, in the order of the input, each the
\* contents of the run's lines joined with LF; blank lines with nothing
\* buffered and lines of other fields add nothing and cut no run
C29_OnePayloadPerRun ==
    e_pc = "done" =>
        /\ Len(e_out) = Cardinality(RunEnds)
        /\ \A e \in RunEnds :
              e_out[Cardinality({i \in RunEnds : i <= e})] = RunText(RunOf(e), 1)

\* C29 witness: a run of two data: lines with the line of another field
\* between them, ended by a blank line, was yielded as one payload
C29_Witness ==
    /\ e_pc = "done"
    /\ Len(e_in) = 3
    /\ DataAt(1) /\ ~DataAt(2) /\ ~BlankAt(2) /\ DataAt(3)
    /\ Len(e_out) = 1
    /\ \E i \in 1..Len(e_out[1]) : e_out[1][i] = "LF"

\* C30: the content buffered for a data: line is the line without the data:
\* prefix and without one leading whitespace character; whitespace after
\* that one character stays in the payload
C30_OneLeadingSpace ==
    [][SseData => e_data_lines'[Len(e_data_lines')]
                    = LStripOne(Tail(RStripCrLf(Head(e_rest))))]_vars

----------------------------------------------------------------------------
(* utils.py, soft_delete: the rename that stands for a deletion.  A file
   name is [of, ts]: ts = NoneSec is the plain name `of`, any other ts is
   deleted_<ts>_<of>, ts being the second datetime.now() fell into.  The
   directory maps every name to the content of the file, 0 where there is
   none. *)

MaxCreates == 2             \* files created in the directory
MaxClock == 1               \* seconds the clock advances

PlainNames == {"a.json", "b.flac"}
Plain(n) == [of |-> n, ts |-> NoneSec]

\* utils.py 85-87: f"deleted_{timestamp}_{path.name}" in path.parent
SoftDeleteTarget(path, now) == [of |-> path.of, ts |-> now]

DirNames(clock) == {[of |-> n, ts |-> t] : n \in PlainNames, t \in {NoneSec} \cup 0..clock}

\* a copy to dst that leaves src in place
FsCopy(fs, from, to) == [fs EXCEPT ![to] = fs[from]]

\* os.replace(src, dst): dst is overwritten, src is gone
FsReplace(fs, from, to) == [fs EXCEPT ![to] = fs[from], ![from] = 0]

DeleteInit ==
    /\ DrvInit /\ rename_failed = TRUE /\ resume_enabled = TRUE
    /\ ScanOff /\ BackoffOff /\ PartsOff
    /\ SseOff /\ TranscriptOff /\ SnapshotOff /\ OrphanOff /\ ProgressOff
    /\ d_pc = "run"
    /\ d_fs = [f \in DirNames(MaxClock) |-> 0]
    /\ d_now = 0 /\ d_created = 0 /\ d_last = NoFile

not_d_vars == <<drv_vars, w_vars, m_vars, r_vars, s_vars, b_vars, e_vars, t_vars, p_vars,
               o_vars, g_vars>>

\* a file with content of its own appears under a plain name
DeleteCreate ==
    /\ d_pc = "run" /\ d_created < MaxCreates
    /\ \E n \in PlainNames :
          d_fs' = [d_fs EXCEPT ![Plain(n)] = d_created + 1]
    /\ d_created' = d_created + 1
    /\ UNCHANGED <<d_pc, d_now, d_last, not_d_vars>>

\* a second passes
DeleteTick ==
    /\ d_pc = "run" /\ d_now < MaxClock
    /\ d_now' = d_now + 1
    /\ UNCHANGED <<d_pc, d_fs, d_created, d_last, not_d_vars>>

\* utils.py 78-92
SoftDelete(n) ==
    /\ d_pc = "run"
    /\ LET path == Plain(n)
       IN  /\ IF d_fs[path] = 0
              THEN UNCHANGED d_fs
              ELSE d_fs' = FsReplace(d_fs, path, SoftDeleteTarget(path, d_now))
           /\ d_last' = [path |-> path, at |-> d_now, existed |-> d_fs[path] # 0]
    /\ UNCHANGED <<d_pc, d_now, d_created, not_d_vars>>

DeleteNext ==
    \/ DeleteCreate
    \/ DeleteTick
    \/ \E n \in PlainNames : SoftDelete(n)

SpecDelete == DeleteInit /\ [][DeleteNext]_vars

\* C26: a call of soft_delete on a file that exists leaves nothing at its
\* path and leaves its content under deleted_<timestamp>_<name> in the same
\* directory, every other file as it was; a call on a path where there is no
\* file leaves the directory as it was
C26_SoftDelete ==
    [][\A n \in PlainNames :
         SoftDelete(n) =>
            LET path == Plain(n)
                target == [of |-> n, ts |-> d_now]
            IN  IF d_fs[path] # 0
                THEN /\ d_fs'[path] = 0
                     /\ d_fs'[target] = d_fs[path]
                     /\ \A f \in DOMAIN d_fs : f \notin {path, target} => d_fs'[f] = d_fs[f]
                ELSE d_fs' = d_fs]_vars

\* C26 witness: the second file of a name was soft-deleted in the second in
\* which the first was: its content is under the deleted_ name, the path is
\* free
C26_Witness ==
    /\ d_last # NoFile /\ d_last.existed
    /\ d_fs[d_last.path] = 0
    /\ d_fs[[of |-> d_last.path.of, ts |-> d_last.at]] = 2
    /\ d_created = 2
    /\ \A f \in DOMAIN d_fs : d_fs[f] # 1

----------------------------------------------------------------------------
(* worker.py 452-467: the transcript of a finished session, over the maps
   and the latest_text a session may leave behind *)

MaxMapSize == 3             \* segments in the map

\* the segments a map may hold: their texts are stripped by the merger
TranscriptSegments ==
    { Seg(0, 1000, "a"), Seg(1000, 2000, ""), Seg(1000, 3000, "b"), Seg(3000, 4000, "") }

TranscriptTexts == {"", " ", "a", " b "}

\* the maps that hold the segments of segs, in every order of arrival
MapsOf(segs) ==
    {d \in [1..Cardinality(segs) -> {[k |-> seg_key(s.start, s.end, s.text), v |-> s] : s \in segs}] :
        \A i, j \in 1..Cardinality(segs) : i # j => d[i] # d[j]}

TranscriptInit ==
    /\ DrvInit /\ rename_failed = TRUE /\ resume_enabled = TRUE
    /\ ScanOff /\ BackoffOff /\ PartsOff
    /\ SseOff /\ DeleteOff /\ SnapshotOff /\ OrphanOff /\ ProgressOff
    /\ t_pc = "returned"
    /\ \E segs \in SUBSET TranscriptSegments :
          /\ Cardinality(segs) <= MaxMapSize
          /\ t_map \in MapsOf(segs)
    /\ t_latest \in TranscriptTexts
    /\ t_out = NoFile

not_t_vars == <<drv_vars, w_vars, m_vars, r_vars, s_vars, b_vars, e_vars, d_vars, p_vars,
               o_vars, g_vars>>

\* worker.py 452-467: seg_list and transcript
TranscriptBuild ==
    /\ t_pc = "returned"
    /\ LET seg_list == SortedSegs(DictValues(t_map))
       IN  t_out' = [segments |-> seg_list, transcript |-> Transcript(seg_list, t_latest)]
    /\ t_pc' = "built"
    /\ UNCHANGED <<t_map, t_latest, not_t_vars>>

TranscriptNext == TranscriptBuild

SpecTranscript == TranscriptInit /\ [][TranscriptNext]_vars

\* the characters of the texts of the model
Chars(t) ==
    CASE t = ""    -> <<>>
      [] t = " "   -> <<" ">>
      [] t = " b " -> <<" ", "b", " ">>
      [] OTHER     -> <<t>>

\* the character strings of ws with one space between neighbours
RECURSIVE JoinSpace(_)
JoinSpace(ws) ==
    IF ws = <<>> THEN <<>>
    ELSE IF Len(ws) = 1 THEN ws[1]
    ELSE ws[1] \o <<" ">> \o JoinSpace(Tail(ws))

\* a character string without the spaces at its ends
RECURSIVE StripSpaces(_)
StripSpaces(cs) ==
    IF cs = <<>> THEN <<>>
    ELSE IF Head(cs) = " " THEN StripSpaces(Tail(cs))
    ELSE IF cs[Len(cs)] = " " THEN StripSpaces(SubSeq(cs, 1, Len(cs) - 1))
    ELSE cs

\* C25: the transcript is the texts of all segments of the map, in
\* ascending (start, end) order, joined by single spaces and stripped, and
\* the stripped latest_text only where that is empty
C25_Transcript ==
    t_pc = "built" =>
        LET segs == t_out.segments
            joined == StripSpaces(JoinSpace([i \in 1..Len(segs) |-> Chars(segs[i].text)]))
            written == JoinSpace([i \in 1..Len(t_out.transcript) |-> Chars(t_out.transcript[i])])
        IN  /\ IsSortedSegs(segs)
            /\ Len(segs) = Len(t_map)
            /\ \A i \in 1..Len(t_map) : \E j \in 1..Len(segs) : segs[j] = t_map[i].v
            /\ written = IF joined # <<>> THEN joined ELSE StripSpaces(Chars(t_latest))

\* C25 witness: a map that received its segments out of order, with an empty
\* text first and between two others, gave a transcript, though latest_text
\* was not empty
C25_Witness ==
    /\ t_pc = "built"
    /\ Len(t_map) = 3 /\ t_map[1].v.start > t_map[2].v.start
    /\ t_out.transcript = <<"a", "", "b">>
    /\ t_latest = " b "

----------------------------------------------------------------------------
(* worker.py 208 and 223-292: the periodic snapshots of one session against
   the clock.  Times are whole seconds of time.time(); no stop signal, no
   resume. *)

MaxSnapEvents == 4          \* events of the session
CheckpointSaveInterval == 10

\* the events the server may send: a segment, the same segment again with
\* the next one, entries that are no segments, a text without segments; and
\* the payloads that are no JSON, given as [raw |-> their characters]
SnapEvents ==
    { [text |-> "a", segments |-> <<Seg(0, 4000, "a")>>],
      [segments |-> <<Seg(0, 4000, "a"), Seg(4000, 5000, " b ")>>],
      [segments |-> <<BadSeg>>],
      [text |-> "c"],
      [raw |-> <<"[DONE]">>],
      [raw |-> <<"DONE">>],
      [raw |-> <<"DONE", " ">>] }

\* the end-of-stream test that knows [DONE] only
IsDoneBracketOnly(payload) == StripSpaces(payload) = <<"[DONE]">>

\* worker.py 228: payload.strip() in ("[DONE]", "DONE")
IsDone(payload) == StripSpaces(payload) \in {<<"[DONE]">>, <<"DONE">>}

\* the seconds that may pass between two events
SnapGaps == {0, CheckpointSaveInterval - 1, CheckpointSaveInterval}

\* worker.py 278
SnapshotDue(now, last_write) == now - last_write >= CheckpointSaveInterval

SnapshotInit ==
    /\ DrvInit /\ rename_failed = TRUE /\ resume_enabled = TRUE
    /\ ScanOff /\ BackoffOff /\ PartsOff
    /\ SseOff /\ DeleteOff /\ TranscriptOff /\ OrphanOff /\ ProgressOff
    /\ p_pc = "events"
    /\ p_now = 2 * CheckpointSaveInterval
    /\ p_last_write = 0
    /\ p_map = <<>>
    /\ p_left \in SeqsUpTo(SnapEvents, MaxSnapEvents)
    /\ p_text = ""
    /\ p_disk = AttemptRecord(FreshCheckpoint(1), 1)
    /\ p_snaps = <<>>
    /\ p_in = p_left

not_p_vars == <<drv_vars, w_vars, m_vars, r_vars, s_vars, b_vars, e_vars, d_vars, t_vars,
               o_vars, g_vars>>

\* worker.py 223-297: one payload of the stream; an end-of-stream payload
\* leaves the loop and the session returns, a payload that is no JSON is
\* passed over
SnapEvent ==
    /\ p_pc = "events" /\ p_left # <<>>
    /\ \E gap \in SnapGaps :
        LET ev == Head(p_left)
            now == p_now + gap
            text == IF "text" \in DOMAIN ev THEN ev.text ELSE p_text
        IN  /\ p_now' = now
            /\ p_text' = text
            /\ p_left' = Tail(p_left)
            /\ p_pc' = IF "raw" \in DOMAIN ev /\ IsDone(ev.raw) THEN "returned" ELSE p_pc
            /\ IF "segments" \notin DOMAIN ev
               THEN UNCHANGED <<p_map, p_last_write, p_disk, p_snaps>>
               ELSE LET merged == MergeSegments(p_map, ev.segments, 0, NoneSec)
                        write == /\ Changed(ev.segments, 0, NoneSec)
                                 /\ SnapshotDue(now, p_last_write)
                    IN  /\ p_map' = merged
                        /\ IF write
                           THEN /\ p_last_write' = now
                                /\ p_disk' = SnapshotRecord(LoadOrEmpty(p_disk), merged, text)
                                /\ p_snaps' = Append(p_snaps, [at |-> now, map |-> merged,
                                                             text |-> text])
                           ELSE UNCHANGED <<p_last_write, p_disk, p_snaps>>
    /\ UNCHANGED <<p_in, not_p_vars>>

\* worker.py 223, 294-297: the stream ends and the session returns
SnapEnd ==
    /\ p_pc = "events" /\ p_left = <<>>
    /\ p_pc' = "returned"
    /\ UNCHANGED <<p_now, p_last_write, p_map, p_left, p_text, p_disk, p_snaps, p_in,
                   not_p_vars>>

SnapshotNext == SnapEvent \/ SnapEnd

SpecSnapshot == SnapshotInit /\ [][SnapshotNext]_vars

\* what every snapshot holds and how far apart two snapshots are
SnapshotsSpacedAndWellFormed ==
    /\ \A i \in 1..(Len(p_snaps) - 1) :
          p_snaps[i + 1].at - p_snaps[i].at >= CheckpointSaveInterval
    /\ p_snaps # <<>> =>
          /\ p_disk.state = "in_progress"
          /\ p_disk.segments = SortedSegs(DictValues(p_snaps[Len(p_snaps)].map))
          /\ IsSortedSegs(p_disk.segments)
          /\ p_disk.last_end_sec = p_disk.segments[Len(p_disk.segments)].end
          /\ p_disk.latest_text = p_snaps[Len(p_snaps)].text

\* C28: two consecutive snapshots of a session are at least
\* checkpoint_save_interval apart and the map of the later differs from the
\* map of the earlier; a snapshot has state in_progress, the sorted list of
\* the map, the end of its last segment as last_end_sec, and the latest_text
C28_SnapshotsSpacedAndChanged ==
    /\ SnapshotsSpacedAndWellFormed
    /\ \A i \in 1..(Len(p_snaps) - 1) : p_snaps[i + 1].map # p_snaps[i].map

\* the payloads equal to [DONE] or DONE
DonePayload(ev) == "raw" \in DOMAIN ev /\ ev.raw \in {<<"[DONE]">>, <<"DONE">>}

\* the place of the first such payload in the stream, 0 if it has none
FirstDone(in) ==
    IF \E i \in 1..Len(in) : DonePayload(in[i])
    THEN CHOOSE i \in 1..Len(in) :
            DonePayload(in[i]) /\ \A j \in 1..(i - 1) : ~DonePayload(in[j])
    ELSE 0

\* the text of the last of the first n payloads that carried a text
RECURSIVE TextOfFirst(_, _)
TextOfFirst(in, n) ==
    IF n = 0 THEN ""
    ELSE IF "text" \in DOMAIN in[n] THEN in[n].text
    ELSE TextOfFirst(in, n - 1)

\* the session has read the first payload equal to [DONE] or DONE
ReadDone == FirstDone(p_in) > 0 /\ Len(p_in) - Len(p_left) >= FirstDone(p_in)

\* C31: a payload equal to [DONE] or DONE ends ingestion: once it is read
\* the session has returned, no later event changes the segment map or
\* latest_text, and what is returned is the text of the last event before
\* it that carried one, the empty string if there was none
C31_DoneEndsIngestion ==
    /\ [](ReadDone => /\ p_pc = "returned"
                      /\ p_text = TextOfFirst(p_in, FirstDone(p_in) - 1))
    /\ [][ReadDone => (p_map' = p_map /\ p_text' = p_text /\ p_left' = p_left)]_vars

\* C31 witness: the session returned at a DONE that followed a text and a
\* later event without text, with a segment and a text still unread behind it
C31_Witness ==
    /\ p_pc = "returned"
    /\ Len(p_in) = 4 /\ Len(p_left) = 1
    /\ p_in[1] = [text |-> "c"] /\ "segments" \in DOMAIN p_in[2] /\ "text" \notin DOMAIN p_in[2]
    /\ p_in[3] = [raw |-> <<"DONE">>]
    /\ p_in[4] = [text |-> "a", segments |-> <<Seg(0, 4000, "a")>>]
    /\ p_text = "c"

----------------------------------------------------------------------------
(* checkpoint.py 28-48: cleanup_orphan_checkpoints over a checkpoint
   directory (SpecOrphan).  A file name is its plain name and the
   timestamps of the deleted_ prefixes in front of it, the newest first. *)

OrphanBases == {<<"a", ".json">>, <<"b", ".json">>, <<"n", ".txt">>}

\* the seconds of the clock: 0 is before the process started
OrphanTimes == 0..(1 + MaxClock)

OrphanNames ==
    {[base |-> b, del |-> d] : b \in OrphanBases, d \in {<<>>} \cup SeqsUpTo(OrphanTimes, 2)}

\* what the directory may hold when the process starts: records under their
\* plain names, a record soft-deleted by an earlier process, another file
OrphanInitNames ==
    {[base |-> b, del |-> <<>>] : b \in OrphanBases} \cup {[base |-> <<"a", ".json">>, del |-> <<0>>]}

\* what a file of the directory may hold: no JSON, {}, a record without
\* file_path, with an empty one, with that of x.mp3 and of y.mp3
OrphanContents ==
    { Corrupt, EmptyDict,
      [state |-> "in_progress"],
      [state |-> "in_progress", file_path |-> ""],
      [state |-> "in_progress", file_path |-> "x.mp3"],
      [state |-> "done", file_path |-> "y.mp3"] }

\* checkpoint_dir.glob("*.json")
GlobJson(dir) == {n \in DOMAIN dir : dir[n] # NoFile /\ Suffix(n.base) = ".json"}

\* the test that takes only what json.load fails on for an orphan
IsOrphanCorruptOnly(d, files) == d = NoFile \/ d = Corrupt

\* checkpoint.py 32-33 and 40-41: not data, or not file_path, or the path
\* does not exist; d is what is at cp
IsOrphan(d, files) ==
    LET data == LoadOrEmpty(d)
        file_path == Get(data, "file_path", "")
    IN  \/ data = EmptyDict
        \/ file_path = ""
        \/ file_path \notin files

\* utils.py 78-92 on a path of checkpoint_dir
OrphanSoftDelete(dir, cp, now) ==
    IF dir[cp] = NoFile THEN dir
    ELSE [dir EXCEPT ![[base |-> cp.base, del |-> <<now>> \o cp.del]] = dir[cp],
                     ![cp] = NoFile]

OrphanInit ==
    /\ DrvInit /\ rename_failed = TRUE /\ resume_enabled = TRUE
    /\ ScanOff /\ BackoffOff /\ PartsOff
    /\ SseOff /\ DeleteOff /\ TranscriptOff /\ SnapshotOff /\ ProgressOff
    /\ o_pc = "start"
    /\ \E f \in [OrphanInitNames -> OrphanContents \cup {NoFile}] :
          /\ f[[base |-> <<"n", ".txt">>, del |-> <<>>]] \in {NoFile, Corrupt}
          /\ o_dir = [n \in OrphanNames |-> IF n \in OrphanInitNames THEN f[n] ELSE NoFile]
    /\ o_files \in SUBSET {"x.mp3"}
    /\ o_todo = {}
    /\ o_now = 1
    /\ o_removed = 0
    /\ o_before = o_dir

not_o_vars == <<drv_vars, w_vars, m_vars, r_vars, s_vars, b_vars, e_vars, d_vars, t_vars,
               p_vars, g_vars>>

\* checkpoint.py 29-31: the glob lists the directory
OrphanGlob ==
    /\ o_pc = "start"
    /\ o_todo' = GlobJson(o_dir)
    /\ o_pc' = "loop"
    /\ UNCHANGED <<o_dir, o_files, o_now, o_removed, o_before, not_o_vars>>

\* a second passes
OrphanTick ==
    /\ o_pc \in {"start", "loop"} /\ o_now < 1 + MaxClock
    /\ o_now' = o_now + 1
    /\ UNCHANGED <<o_pc, o_dir, o_files, o_todo, o_removed, o_before, not_o_vars>>

\* checkpoint.py 31-46: the body of the for loop for one path
OrphanStep ==
    /\ o_pc = "loop" /\ o_todo # {}
    /\ \E cp \in o_todo :
          /\ o_todo' = o_todo \ {cp}
          /\ IF IsOrphan(o_dir[cp], o_files)
             THEN /\ o_dir' = OrphanSoftDelete(o_dir, cp, o_now)
                  /\ o_removed' = o_removed + 1
             ELSE UNCHANGED <<o_dir, o_removed>>
    /\ UNCHANGED <<o_pc, o_files, o_now, o_before, not_o_vars>>

\* checkpoint.py 47-48
OrphanEnd ==
    /\ o_pc = "loop" /\ o_todo = {}
    /\ o_pc' = "done"
    /\ UNCHANGED <<o_dir, o_files, o_todo, o_now, o_removed, o_before, not_o_vars>>

OrphanNext == OrphanGlob \/ OrphanTick \/ OrphanStep \/ OrphanEnd

SpecOrphan == OrphanInit /\ [][OrphanNext]_vars

\* a record that fails to parse, or whose file_path is missing or names a
\* file that does not exist
OrphanRecord(d, files) ==
    \/ d = Corrupt
    \/ "file_path" \notin DOMAIN d
    \/ d.file_path \notin files

\* C35: after cleanup_orphan_checkpoints every *.json file of the directory
\* that fails to parse, or whose file_path is missing or names a file that
\* no longer exists, is gone from its path and kept under a deleted_ name;
\* every record whose file_path exists, and every other file, is unchanged
\* in place
C35_OrphansRemoved ==
    o_pc = "done" =>
        \A n \in DOMAIN o_before :
            o_before[n] # NoFile =>
                IF Suffix(n.base) = ".json" /\ OrphanRecord(o_before[n], o_files)
                THEN /\ o_dir[n] = NoFile
                     /\ \E t \in OrphanTimes :
                           o_dir[[base |-> n.base, del |-> <<t>> \o n.del]] = o_before[n]
                ELSE o_dir[n] = o_before[n]

\* C35 witness: a call that met a file that is no JSON, a record without
\* file_path, one of an input that exists, and another file, and moved two
\* of them
C35_Witness ==
    /\ o_pc = "done" /\ o_removed = 2 /\ o_files = {"x.mp3"}
    /\ o_before[[base |-> <<"a", ".json">>, del |-> <<>>]] = Corrupt
    /\ o_before[[base |-> <<"a", ".json">>, del |-> <<0>>]] = [state |-> "in_progress"]
    /\ o_before[[base |-> <<"b", ".json">>, del |-> <<>>]]
          = [state |-> "in_progress", file_path |-> "x.mp3"]
    /\ o_before[[base |-> <<"n", ".txt">>, del |-> <<>>]] = Corrupt
    /\ o_dir[[base |-> <<"b", ".json">>, del |-> <<>>]] = o_before[[base |-> <<"b", ".json">>, del |-> <<>>]]
    /\ o_dir[[base |-> <<"a", ".json">>, del |-> <<2, 0>>]] = [state |-> "in_progress"]

----------------------------------------------------------------------------
(* worker.py 188-206 and 298-303: the progress reporter thread beside the
   session that started it (SpecProgress).  Times are whole seconds. *)

MaxProgressClock == 12      \* seconds the clock runs
ProgressLogEvery == 10
JoinTimeout == 1

\* worker.py 192: max(1, self.cfg.progress_log_every)
ProgressSleep == Max(1, ProgressLogEvery)

\* worker.py 205-206: the thread is started, the session enters its body
ProgressInit ==
    /\ DrvInit /\ rename_failed = TRUE /\ resume_enabled = TRUE
    /\ ScanOff /\ BackoffOff /\ PartsOff
    /\ SseOff /\ DeleteOff /\ TranscriptOff /\ SnapshotOff /\ OrphanOff
    /\ g_pc = "body" /\ g_how = "unset" /\ g_thread = "test"
    /\ g_now = 0 /\ g_wake = 0 /\ g_deadline = 0
    /\ g_progress_stop = FALSE /\ g_stop = FALSE /\ g_late = 0

not_g_vars == <<drv_vars, w_vars, m_vars, r_vars, s_vars, b_vars, e_vars, d_vars, t_vars,
               p_vars, o_vars>>

\* a second passes
ProgressTick ==
    /\ g_pc # "off" /\ g_now < MaxProgressClock
    /\ g_now' = g_now + 1
    /\ UNCHANGED <<g_pc, g_how, g_thread, g_wake, g_deadline, g_progress_stop, g_stop,
                   g_late, not_g_vars>>

\* main.py 21-23: a signal sets stop_event
ProgressSignal ==
    /\ g_pc # "off" /\ ~g_stop
    /\ g_stop' = TRUE
    /\ UNCHANGED <<g_pc, g_how, g_thread, g_now, g_wake, g_deadline, g_progress_stop,
                   g_late, not_g_vars>>

\* worker.py 191-192: the thread tests the two events and goes to sleep, or ends
ProgressTest ==
    /\ g_thread = "test"
    /\ IF g_stop \/ g_progress_stop
       THEN g_thread' = "dead" /\ UNCHANGED g_wake
       ELSE g_thread' = "sleep" /\ g_wake' = g_now + ProgressSleep
    /\ UNCHANGED <<g_pc, g_how, g_now, g_deadline, g_progress_stop, g_stop, g_late,
                   not_g_vars>>

\* worker.py 192-203: the sleep is over and the thread logs a progress line
ProgressLog ==
    /\ g_thread = "sleep" /\ g_now >= g_wake
    /\ g_thread' = "test"
    /\ g_late' = IF g_pc \in {"returned", "raised"} THEN g_late + 1 ELSE g_late
    /\ UNCHANGED <<g_pc, g_how, g_now, g_wake, g_deadline, g_progress_stop, g_stop,
                   not_g_vars>>

\* worker.py 225, 295, 297 or an exception, then 298-301: the body is left,
\* the finally sets progress_stop and begins t.join(timeout=1)
SessionLeave ==
    /\ g_pc = "body"
    /\ g_how' \in {"returned", "raised"}
    /\ g_progress_stop' = TRUE
    /\ g_deadline' = g_now + JoinTimeout
    /\ g_pc' = "join"
    /\ UNCHANGED <<g_thread, g_now, g_wake, g_stop, g_late, not_g_vars>>

\* worker.py 301-303: the join ends with the thread or with its timeout, and
\* the session returns or raises
JoinEnd ==
    /\ g_pc = "join"
    /\ g_thread = "dead" \/ g_now >= g_deadline
    /\ g_pc' = g_how
    /\ UNCHANGED <<g_how, g_thread, g_now, g_wake, g_deadline, g_progress_stop, g_stop,
                   g_late, not_g_vars>>

ProgressNext ==
    \/ ProgressTick
    \/ ProgressSignal
    \/ ProgressTest
    \/ ProgressLog
    \/ SessionLeave
    \/ JoinEnd

SpecProgress == ProgressInit /\ [][ProgressNext]_vars

\* C32: the progress reporter thread does not outlive its session: once the
\* session has returned or raised the thread has ended, and it logs no
\* progress line afterwards
C32_ThreadEndsWithSession ==
    g_pc \in {"returned", "raised"} => (g_thread = "dead" /\ g_late = 0)

====
